---- MODULE Spec2Model ----
(***************************************************************************)
(* linuxmemparser: the boot-strap address-translation pipeline of main     *)
(* (Stage A locate init_task, Stage B phys_base, Stage C direct-map base,  *)
(* Stage D publish) and the task-list walker, as a state machine over an   *)
(* input (dump + symbol catalogue) chosen in Init.                         *)
(*                                                                         *)
(* A u64 is the triple <<a, b, c>> of its top 24 bits, its middle 20 bits  *)
(* and its low 20 bits (value a*2^40 + b*2^20 + c), so that 64-bit         *)
(* arithmetic is exact although TLC's integers are 32 bits wide.  Sixteen  *)
(* hex digits split 6+5+5: 0xffff_ffff_8000_0000 is                        *)
(* <<\hFFFFFF, \hFF800, \h00000>>.  File offsets (usize) are plain         *)
(* integers; every input keeps them below 2^31.                            *)
(***************************************************************************)
EXTENDS Integers, Sequences, FiniteSets, TLC

VARIABLES
  input,        \* the dump, its regions and the symbol catalogue (never changes)
  pc,           \* position in main / the plugin
  translator,   \* MemoryTranslator's three scalars
  stageA,       \* what detect_kaslr_offset returned, and by which scan
  stageB,       \* Stage B's candidate loop: index, candidates tried, outcome
  stageC,       \* Stage C: tasks.next read, valid candidates, outcome
  context,      \* AnalysisContext.init_task_offset once created
  walk,         \* walk_process_list's locals
  outcome,      \* how the run ended
  call          \* a function called on its own: its arguments, then its return

vars == <<input, pc, translator, stageA, stageB, stageC, context, walk, outcome, call>>

----------------------------------------------------------------------------
(* 64-bit unsigned arithmetic on <<a, b, c>>                               *)

B20 == 1024 * 1024
B24 == 16 * B20

U64(a, b, c) == <<a, b, c>>
U64Zero == <<0, 0, 0>>
U64Max == <<B24 - 1, B20 - 1, B20 - 1>>

U64Lt(p, q) ==
  \/ p[1] < q[1]
  \/ p[1] = q[1] /\ p[2] < q[2]
  \/ p[1] = q[1] /\ p[2] = q[2] /\ p[3] < q[3]

U64Le(p, q) == p = q \/ U64Lt(p, q)

\* p - q modulo 2^64 (wrapping_sub)
U64WrappingSub(p, q) ==
  LET c0 == p[3] - q[3]
      w0 == IF c0 < 0 THEN 1 ELSE 0
      c1 == p[2] - q[2] - w0
      w1 == IF c1 < 0 THEN 1 ELSE 0
      c2 == p[1] - q[1] - w1
  IN  << IF c2 < 0 THEN c2 + B24 ELSE c2,
         IF c1 < 0 THEN c1 + B20 ELSE c1,
         IF c0 < 0 THEN c0 + B20 ELSE c0 >>

\* p + q modulo 2^64 (wrapping_add)
U64WrappingAdd(p, q) ==
  LET c0 == p[3] + q[3]
      w0 == IF c0 >= B20 THEN 1 ELSE 0
      c1 == p[2] + q[2] + w0
      w1 == IF c1 >= B20 THEN 1 ELSE 0
      c2 == p[1] + q[1] + w1
  IN  << IF c2 >= B24 THEN c2 - B24 ELSE c2,
         IF c1 >= B20 THEN c1 - B20 ELSE c1,
         IF c0 >= B20 THEN c0 - B20 ELSE c0 >>

\* whether p + q leaves the u64 range ("attempt to add with overflow")
U64AddOverflows(p, q) == U64Lt(U64WrappingAdd(p, q), p)

\* checked_sub / checked_add: [some, val]
U64CheckedSub(p, q) ==
  IF U64Lt(p, q) THEN [some |-> FALSE, val |-> U64Zero]
  ELSE [some |-> TRUE, val |-> U64WrappingSub(p, q)]

U64CheckedAdd(p, q) ==
  IF U64AddOverflows(p, q) THEN [some |-> FALSE, val |-> U64Zero]
  ELSE [some |-> TRUE, val |-> U64WrappingAdd(p, q)]

\* saturating_add
U64SaturatingAdd(p, q) ==
  IF U64AddOverflows(p, q) THEN U64Max ELSE U64WrappingAdd(p, q)

\* a usize below 2^31 as a u64, and back
FromUsize(n) == <<0, n \div B20, n % B20>>
FitsUsize(u) == u[1] = 0 /\ u[2] < 2047
ToUsize(u) == u[2] * B20 + u[3]

\* the low 32 bits of a u64 read as an i32 (from_ne_bytes on the first 4 bytes)
Low32AsI32(u) ==
  LET hi12 == u[2] % 4096
  IN  IF hi12 >= 2048 THEN (hi12 - 4096) * B20 + u[3] ELSE hi12 * B20 + u[3]

\* |p as i64 - q as i64| for p, q less than 2^63 apart
I64AbsDiff(p, q) == IF U64Lt(p, q) THEN U64WrappingSub(q, p) ELSE U64WrappingSub(p, q)

----------------------------------------------------------------------------
(* Strings: a String is the sequence of its chars; a char is its code      *)
(* point.  A byte above 127 in the dump is an invalid UTF-8 sequence here, *)
(* which from_utf8_lossy turns into U+FFFD (3 bytes long).                 *)

ReplacementChar == 65533 + 0

from_utf8_lossy(bytes) ==
  [i \in 1..Len(bytes) |-> IF bytes[i] > 127 THEN ReplacementChar ELSE bytes[i]]

is_ascii(c) == c <= 127
is_control(c) == c <= 31 \/ c = 127
is_ascii_graphic(c) == c >= 33 /\ c <= 126
is_whitespace(c) == c = 32 \/ (c >= 9 /\ c <= 13)
is_alphanumeric(c) ==
  \/ c >= 48 /\ c <= 57
  \/ c >= 65 /\ c <= 90
  \/ c >= 97 /\ c <= 122

\* String::len(): the length in bytes of the UTF-8 encoding
StrLen(s) == Len(s) + 2 * Cardinality({i \in 1..Len(s) : s[i] = ReplacementChar})

starts_with(s, prefix) ==
  /\ Len(s) >= Len(prefix)
  /\ \A i \in 1..Len(prefix) : s[i] = prefix[i]

\* whether pattern occurs in bytes at (0-based) position p
OccursAt(bytes, pattern, p) ==
  /\ p + Len(pattern) <= Len(bytes)
  /\ \A i \in 1..Len(pattern) : bytes[p + i] = pattern[i]

Swapper == <<115, 119, 97, 112, 112, 101, 114>>
SwapperSlash0 == <<115, 119, 97, 112, 112, 101, 114, 47, 48>>
Systemd == <<115, 121, 115, 116, 101, 109, 100>>
Kthreadd == <<107, 116, 104, 114, 101, 97, 100, 100>>
InitStr == <<105, 110, 105, 116>>
Bash == <<98, 97, 115, 104>>
EmptyStr == <<>>

----------------------------------------------------------------------------
(* The dump buffer: mapped.len bytes, zero except at mapped.cells, a list   *)
(* of typed cells, each at its byte offset o.  No input puts a cell inside *)
(* the bytes of another, so a read sees at most the cell that starts where *)
(* the read starts.                                                        *)

CellU64(o, u) == [o |-> o, k |-> "u64", u |-> u, i |-> 0, s |-> <<>>]
CellI32(o, n) == [o |-> o, k |-> "i32", u |-> U64Zero, i |-> n, s |-> <<>>]
CellStr(o, b) == [o |-> o, k |-> "str", u |-> U64Zero, i |-> 0, s |-> b]

None == [some |-> FALSE]
Some(v) == [some |-> TRUE, val |-> v]

\* the dump's task array, if it has one: mapped.chain.val.count task images,
\* stride bytes apart from base on, image i (from 0) holding pid i + first_pid,
\* the command name comm, and as tasks.next the address of the tasks field of
\* image i + 1; the last image's tasks.next is last_next
InChain(mapped, offset) ==
  /\ mapped.chain.some
  /\ offset >= mapped.chain.val.base
  /\ offset < mapped.chain.val.base + mapped.chain.val.stride * mapped.chain.val.count

ChainCellAt(mapped, offset) ==
  LET ch == mapped.chain.val
      i == (offset - ch.base) \div ch.stride
      rel == (offset - ch.base) % ch.stride
  IN  CASE rel = ch.tasks ->
             CellU64(offset, IF i + 1 = ch.count THEN ch.last_next
                             ELSE U64WrappingAdd(ch.next0, FromUsize((i + 1) * ch.stride)))
        [] rel = ch.pid -> CellI32(offset, i + ch.first_pid)
        [] rel = ch.comm -> CellStr(offset, ch.comm_bytes)
        [] OTHER -> CellU64(offset, U64Zero)

\* whether a cell starts at offset, and the (first listed) cell that does
HasCell(mapped, offset) ==
  \/ \E j \in 1..Len(mapped.cells) : mapped.cells[j].o = offset
  \/ InChain(mapped, offset)
CellAt(mapped, offset) ==
  IF InChain(mapped, offset) THEN ChainCellAt(mapped, offset)
  ELSE mapped.cells[CHOOSE j \in 1..Len(mapped.cells) :
                      /\ mapped.cells[j].o = offset
                      /\ \A h \in 1..(j - 1) : mapped.cells[h].o # offset]

\* the first 8 bytes of a byte string as a little-endian u64
BytesAsU64(b) ==
  LET byte(n) == IF n <= Len(b) THEN b[n] ELSE 0
  IN  << byte(6) + byte(7) * 256 + byte(8) * 65536,
         (byte(3) \div 16) + byte(4) * 16 + byte(5) * 4096,
         byte(1) + byte(2) * 256 + (byte(3) % 16) * 65536 >>

\* the 8 little-endian bytes of a u64
U64AsBytes(u) ==
  << u[3] % 256, (u[3] \div 256) % 256, (u[3] \div 65536) + (u[2] % 16) * 16,
     (u[2] \div 16) % 256, u[2] \div 4096,
     u[1] % 256, (u[1] \div 256) % 256, u[1] \div 65536 >>

\* an i32 as the u64 holding its 4 bytes (upper 4 bytes zero)
I32AsU64(n) == <<0, (n \div B20) % 4096, n % B20>>

CellAsU64(c) ==
  CASE c.k = "u64" -> c.u
    [] c.k = "i32" -> I32AsU64(c.i)
    [] c.k = "str" -> BytesAsU64(c.s)

\* the i32 in the first 4 bytes of a cell, and the bytes of a cell
CellAsI32(c) == IF c.k = "i32" THEN c.i ELSE Low32AsI32(CellAsU64(c))
CellAsBytes(c) == IF c.k = "str" THEN c.s ELSE U64AsBytes(CellAsU64(c))

\* the bytes before the first NUL
UntilNul(b) ==
  LET nul == {i \in 1..Len(b) : b[i] = 0}
  IN  IF nul = {} THEN b
      ELSE SubSeq(b, 1, (CHOOSE i \in nul : \A j \in nul : i <= j) - 1)

\* KernelParser::read_u64
read_u64(mapped, offset) ==
  IF offset + 8 <= mapped.len
  THEN Some(IF HasCell(mapped, offset)
            THEN CellAsU64(CellAt(mapped, offset)) ELSE U64Zero)
  ELSE None

\* KernelParser::read_i32
read_i32(mapped, offset) ==
  IF offset + 4 <= mapped.len
  THEN Some(IF HasCell(mapped, offset) THEN CellAsI32(CellAt(mapped, offset)) ELSE 0)
  ELSE None

\* KernelParser::read_u32, for values below 2^31
read_u32(mapped, offset) == read_i32(mapped, offset)

\* KernelParser::read_string
read_string(mapped, offset, length) ==
  IF offset + length <= mapped.len
  THEN Some(from_utf8_lossy(
         IF HasCell(mapped, offset) THEN UntilNul(CellAsBytes(CellAt(mapped, offset)))
         ELSE <<>>))
  ELSE None

\* memmem::Finder::find_iter: the set of positions at which pattern occurs
\* (patterns are looked for in the dump's strings only)
find_iter(mapped, pattern) ==
  UNION { {mapped.cells[j].o + p :
             p \in {q \in 0..15 : OccursAt(mapped.cells[j].s, pattern, q)}} :
          j \in {x \in 1..Len(mapped.cells) : mapped.cells[x].k = "str"} }

----------------------------------------------------------------------------
(* Address translation (translation/mod.rs)                                *)

KERNEL_MAP_BASE == U64(\hFFFFFF, \hFF800, \h00000)       \* 0xffffffff80000000
KERNEL_TEXT_BASE == U64(\hFFFFFF, \hFF810, \h00000)      \* 0xffffffff81000000
KERNEL_MAP_END == U64(\hFFFFFF, \hFFFF0, \h00000)        \* 0xffffffffff000000
PAGE_OFFSET_4LEVEL == U64(\hFFFF88, \h00000, \h00000)    \* 0xffff880000000000
PAGE_OFFSET_5LEVEL == U64(\hFFFF88, \h80000, \h00000)    \* 0xffff888000000000
DIRECT_MAP_END_5LEVEL == U64(\hFFFFC8, \h80000, \h00000) \* 0xffffc88000000000
DIRECT_MAP_END_4LEVEL == U64(\hFFFFC8, \h00000, \h00000) \* 0xffffc80000000000
DEFAULT_PHYS_BASE == U64(0, 16, 0)                       \* 0x1000000

\* MemoryTranslator::new
MemoryTranslator_new ==
  [ phys_base |-> DEFAULT_PHYS_BASE,
    page_offset_4level |-> PAGE_OFFSET_4LEVEL,
    page_offset_5level |-> PAGE_OFFSET_5LEVEL ]

\* MemoryTranslator::virtual_to_physical; ovf: phys_base + offset leaves u64
virtual_to_physical(tr, virtual_addr) ==
  IF U64Le(KERNEL_MAP_BASE, virtual_addr) /\ U64Lt(virtual_addr, KERNEL_MAP_END)
  THEN [ some |-> TRUE,
         val |-> U64WrappingAdd(tr.phys_base, U64WrappingSub(virtual_addr, KERNEL_MAP_BASE)),
         ovf |-> U64AddOverflows(tr.phys_base, U64WrappingSub(virtual_addr, KERNEL_MAP_BASE)) ]
  ELSE IF U64Le(tr.page_offset_5level, virtual_addr) /\ U64Lt(virtual_addr, DIRECT_MAP_END_5LEVEL)
  THEN [some |-> TRUE, val |-> U64WrappingSub(virtual_addr, tr.page_offset_5level), ovf |-> FALSE]
  ELSE IF U64Le(tr.page_offset_4level, virtual_addr) /\ U64Lt(virtual_addr, DIRECT_MAP_END_4LEVEL)
  THEN [some |-> TRUE, val |-> U64WrappingSub(virtual_addr, tr.page_offset_4level), ovf |-> FALSE]
  ELSE [some |-> FALSE, val |-> U64Zero, ovf |-> FALSE]

\* the regions (in list order) whose closed interval holds a physical address
RegionsHolding(regions, physical_addr) ==
  {r \in 1..Len(regions) :
     U64Le(regions[r].start, physical_addr) /\ U64Le(physical_addr, regions[r].end)}

MinOf(S) == CHOOSE x \in S : \A y \in S : x <= y
MaxOf(S) == CHOOSE x \in S : \A y \in S : x >= y

\* a region loop that returns the file offset of the start of the region
RegionStartOf(regions, phys) ==
  IF phys.some /\ RegionsHolding(regions, phys.val) # {}
  THEN [ some |-> TRUE, val |-> regions[MinOf(RegionsHolding(regions, phys.val))].file_offset,
         ovf |-> phys.ovf ]
  ELSE [some |-> FALSE, val |-> 0, ovf |-> phys.ovf]

\* the region loop of virtual_to_file_offset (translation/mod.rs 146-153) on
\* what virtual_to_physical returned
RegionOffsetOf(regions, phys) ==
  LET hit == RegionsHolding(regions, phys.val)
  IN  IF phys.some /\ hit # {}
      THEN [ some |-> TRUE,
             val |-> regions[MinOf(hit)].file_offset
                       + ToUsize(U64WrappingSub(phys.val, regions[MinOf(hit)].start)),
             ovf |-> phys.ovf ]
      ELSE [some |-> FALSE, val |-> 0, ovf |-> phys.ovf]

\* MemoryTranslator::virtual_to_file_offset
virtual_to_file_offset(tr, regions, virtual_addr) ==
  RegionOffsetOf(regions, virtual_to_physical(tr, virtual_addr))

----------------------------------------------------------------------------
(* Symbol catalogue and structure offsets (symbols/mod.rs, core/offsets.rs) *)

\* SymbolResolver::get_symbol_address
get_symbol_address(resolver, name) ==
  IF name \in DOMAIN resolver.symbols THEN Some(resolver.symbols[name]) ELSE None

\* StructureOffsets::load_offsets_for_version: the row for (major, minor)
load_offsets_for_version(version) ==
  CASE version.major = 4 /\ version.minor = 19 ->
         [ pid |-> \h318, comm |-> \h498, parent |-> \h310, cred |-> \h440,
           state |-> 0, tasks |-> 0, start_time |-> \h300, uid |-> 0, gid |-> 4 ]
    [] version.major = 5 /\ version.minor = 4 ->
         [ pid |-> \h320, comm |-> \h4A0, parent |-> \h318, cred |-> \h448,
           state |-> 0, tasks |-> 0, start_time |-> \h308, uid |-> 0, gid |-> 4 ]
    [] version.major = 5 /\ version.minor = 15 ->
         [ pid |-> \h328, comm |-> \h4A8, parent |-> \h320, cred |-> \h450,
           state |-> 0, tasks |-> 0, start_time |-> \h310, uid |-> 0, gid |-> 4 ]
    [] version.major = 6 /\ version.minor = 1 ->
         [ pid |-> \h330, comm |-> \h4B0, parent |-> \h328, cred |-> \h458,
           state |-> 0, tasks |-> 0, start_time |-> \h318, uid |-> 0, gid |-> 4 ]
    [] OTHER ->
         [ pid |-> \h328, comm |-> \h4A8, parent |-> \h320, cred |-> \h450,
           state |-> 0, tasks |-> 0, start_time |-> \h310, uid |-> 0, gid |-> 4 ]

TaskStructFields == {"pid", "comm", "parent", "cred", "state", "tasks", "start_time"}
CredFields == {"uid", "gid"}

\* StructureOffsets::get_offset
get_offset(version, struct_name, field_name) ==
  IF \/ struct_name = "task_struct" /\ field_name \in TaskStructFields
     \/ struct_name = "cred" /\ field_name \in CredFields
  THEN Some(load_offsets_for_version(version)[field_name])
  ELSE None

\* the hard-coded last resort of get_struct_field_offset
HardCodedOffset(struct_name, field_name) ==
  CASE struct_name = "task_struct" /\ field_name = "pid" -> Some(\h328)
    [] struct_name = "task_struct" /\ field_name = "comm" -> Some(\h4A8)
    [] struct_name = "task_struct" /\ field_name = "parent" -> Some(\h320)
    [] struct_name = "task_struct" /\ field_name = "start_time" -> Some(\h310)
    [] struct_name = "task_struct" /\ field_name = "cred" -> Some(\h450)
    [] struct_name = "task_struct" /\ field_name = "state" -> Some(0)
    [] struct_name = "task_struct" /\ field_name = "tasks" -> Some(0)
    [] struct_name = "cred" /\ field_name = "uid" -> Some(0)
    [] struct_name = "cred" /\ field_name = "gid" -> Some(4)
    [] OTHER -> None

\* get_struct_field_offset, were the version table asked before the catalogue
version_table_first(resolver, struct_name, field_name, kernel_version) ==
  IF kernel_version.some /\ get_offset(kernel_version.val, struct_name, field_name).some
  THEN get_offset(kernel_version.val, struct_name, field_name)
  ELSE IF <<struct_name, field_name>> \in DOMAIN resolver.struct_offsets
  THEN Some(resolver.struct_offsets[<<struct_name, field_name>>])
  ELSE HardCodedOffset(struct_name, field_name)

\* SymbolResolver::get_struct_field_offset; kernel_version is an Option
get_struct_field_offset(resolver, struct_name, field_name, kernel_version) ==
  IF <<struct_name, field_name>> \in DOMAIN resolver.struct_offsets
  THEN Some(resolver.struct_offsets[<<struct_name, field_name>>])
  ELSE IF /\ struct_name = "task_struct" /\ field_name = "state"
          /\ <<"task_struct", "__state">> \in DOMAIN resolver.struct_offsets
  THEN Some(resolver.struct_offsets[<<"task_struct", "__state">>])
  ELSE IF kernel_version.some
          /\ get_offset(kernel_version.val, struct_name, field_name).some
  THEN get_offset(kernel_version.val, struct_name, field_name)
  ELSE HardCodedOffset(struct_name, field_name)

\* SymbolResolver::get_struct_field_offset_fallback
get_struct_field_offset_fallback(resolver, struct_name, field_name) ==
  get_struct_field_offset(resolver, struct_name, field_name, None)

\* Option::unwrap_or
unwrap_or(opt, default) == IF opt.some THEN opt.val ELSE default

\* SymbolResolver::detect_kernel_version: the (major, minor) of the dump's
\* "Linux version " banner, None when the dump has no banner
detect_kernel_version(mapped) == mapped.version

----------------------------------------------------------------------------
(* Stage A: SymbolResolver::detect_kaslr_offset                            *)

MIN_KERNEL_ADDR == U64(\hFFFF80, \h00000, \h00000)   \* 0xffff800000000000
MAX_KERNEL_ADDR == U64(\hFFFFFF, \hFFFFF, \h00000)   \* 0xfffffffffff00000
SENTINEL_MINUS_1 == U64(\hFFFFFF, \hFFFFF, \hFFFFF)  \* 0xffffffffffffffff
SENTINEL_MINUS_2 == U64(\hFFFFFF, \hFFFFF, \hFFFFE)  \* 0xfffffffffffffffe

KaslrShifts == (0 - 512)..512
sample_offsets == {0, 8, 16, 24, 32, 40, 48, 56, 64, 72}

\* (static_init_task as i64 + kaslr_offset * 0x100000) as u64
ShiftedAddr(static_init_task, kaslr_offset) ==
  IF kaslr_offset >= 0
  THEN U64WrappingAdd(static_init_task, U64(0, kaslr_offset, 0))
  ELSE U64WrappingSub(static_init_task, U64(0, 0 - kaslr_offset, 0))

\* the number of the 10 sampled words of the structure that are non-zero
non_zero_count(memory, file_offset) ==
  Cardinality({o \in sample_offsets :
                 /\ file_offset + o + 8 <= memory.len
                 /\ read_u64(memory, file_offset + o).val # U64Zero})

\* the checks of the shift loop on the tasks.next read (symbols/mod.rs 270-285)
TasksNextPlausible(tasks_next) ==
  /\ tasks_next # U64Zero
  /\ ~ (U64Lt(tasks_next, MIN_KERNEL_ADDR) \/ U64Le(MAX_KERNEL_ADDR, tasks_next))
  /\ ~ (tasks_next = SENTINEL_MINUS_1 \/ tasks_next = SENTINEL_MINUS_2)

\* the body of the shift loop from the translation t of the shifted address on
TaskAtShiftAccepts(resolver, memory, t) ==
  LET pid_offset == unwrap_or(get_struct_field_offset_fallback(resolver, "task_struct", "pid"), \hAD0)
      tasks_offset == unwrap_or(get_struct_field_offset_fallback(resolver, "task_struct", "tasks"), \hA00)
      comm_offset == unwrap_or(get_struct_field_offset_fallback(resolver, "task_struct", "comm"), \hCF0)
      file_offset == t.val
  IN  /\ t.some
      /\ file_offset + pid_offset + 4 <= memory.len
      /\ read_i32(memory, file_offset + pid_offset).val = 0
      /\ non_zero_count(memory, file_offset) >= 3
      /\ file_offset + tasks_offset + 8 <= memory.len
      /\ TasksNextPlausible(read_u64(memory, file_offset + tasks_offset).val)
      /\ starts_with(unwrap_or(read_string(memory, file_offset + comm_offset, 16), EmptyStr),
                     Swapper)

\* whether the body of the shift loop reaches `return Some(..)` for this shift
ShiftAccepts(resolver, memory, tr, regions, kaslr_offset) ==
  TaskAtShiftAccepts(resolver, memory,
    virtual_to_file_offset(tr, regions,
      ShiftedAddr(get_symbol_address(resolver, "init_task").val, kaslr_offset)))

\* the last of the shifts rather than the first
LastOfShifts(S) == MaxOf(S)

\* the shift at which the loop `for kaslr_offset in -512..=512` returns
FirstOfShifts(S) == MinOf(S)

\* what the shift loop returns, passing being the shifts its body accepts
ShiftReturn(resolver, tr, regions, passing) ==
  IF passing = {} THEN None
  ELSE Some([ offset_bytes |-> FirstOfShifts(passing) * B20,
              file_offset |-> virtual_to_file_offset(tr, regions,
                 ShiftedAddr(get_symbol_address(resolver, "init_task").val,
                             FirstOfShifts(passing))).val ])

\* the shift loop of detect_kaslr_offset: Some((offset_bytes, file_offset)) or None
ShiftScan(resolver, memory, tr, regions) ==
  ShiftReturn(resolver, tr, regions,
              {k \in KaslrShifts : ShiftAccepts(resolver, memory, tr, regions, k)})

\* the check of find_init_task_by_swapper_string on the tasks.next read
SwapperTasksNextPlausible(tasks_next) ==
  /\ U64Le(MIN_KERNEL_ADDR, tasks_next)
  /\ U64Lt(tasks_next, MAX_KERNEL_ADDR)
  /\ tasks_next # SENTINEL_MINUS_1

\* whether find_init_task_by_swapper_string returns for this match position
SwapperMatchAccepts(resolver, memory, match_pos) ==
  LET comm_offset == unwrap_or(get_struct_field_offset_fallback(resolver, "task_struct", "comm"), \hCF0)
      pid_offset == unwrap_or(get_struct_field_offset_fallback(resolver, "task_struct", "pid"), \hAD0)
      tasks_offset == unwrap_or(get_struct_field_offset_fallback(resolver, "task_struct", "tasks"), \hA00)
      potential_task_struct == match_pos - comm_offset
  IN  /\ match_pos >= comm_offset
      /\ potential_task_struct + pid_offset + 4 <= memory.len
      /\ read_i32(memory, potential_task_struct + pid_offset).val = 0
      /\ potential_task_struct + tasks_offset + 8 <= memory.len
      /\ SwapperTasksNextPlausible(read_u64(memory, potential_task_struct + tasks_offset).val)

\* what find_init_task_by_swapper_string returns, hits being the match
\* positions it accepts
FirstMatchReturn(resolver, hits) ==
  IF hits = {} THEN None
  ELSE Some(MinOf(hits)
            - unwrap_or(get_struct_field_offset_fallback(resolver, "task_struct", "comm"), \hCF0))

\* SymbolResolver::find_init_task_by_swapper_string
find_init_task_by_swapper_string(resolver, memory) ==
  FirstMatchReturn(resolver,
    {m \in find_iter(memory, Swapper) : SwapperMatchAccepts(resolver, memory, m)})

----------------------------------------------------------------------------
(* Stage B: phys_base (symbols/mod.rs 91-131, main.rs 185-303)             *)

TYPICAL_TEXT_PHYSICAL == U64(0, 16, 0)               \* 0x1000000

\* Vec::contains
contains(seq, v) == \E i \in 1..Len(seq) : seq[i] = v

\* candidates.push of an Option's value, and push unless contains
PushSome(candidates, opt) == IF opt.some THEN Append(candidates, opt.val) ELSE candidates
PushNew(candidates, v) == IF contains(candidates, v) THEN candidates ELSE Append(candidates, v)
PushSomeNew(candidates, opt) == IF opt.some THEN PushNew(candidates, opt.val) ELSE candidates

\* candidate 1: TYPICAL_TEXT_PHYSICAL - (text_vaddr - KERNEL_MAP_BASE), both checked
StandardKaslrBase(text_vaddr) ==
  IF U64CheckedSub(text_vaddr, KERNEL_MAP_BASE).some
  THEN U64CheckedSub(TYPICAL_TEXT_PHYSICAL, U64CheckedSub(text_vaddr, KERNEL_MAP_BASE).val)
  ELSE None

\* candidate 4: TYPICAL_TEXT_PHYSICAL + (text_vaddr - KERNEL_TEXT_BASE), both checked
MovedTextBase(text_vaddr) ==
  IF U64CheckedSub(text_vaddr, KERNEL_TEXT_BASE).some
  THEN U64CheckedAdd(TYPICAL_TEXT_PHYSICAL, U64CheckedSub(text_vaddr, KERNEL_TEXT_BASE).val)
  ELSE None

\* SymbolResolver::calculate_phys_base_candidates
calculate_phys_base_candidates(resolver) ==
  IF ~ get_symbol_address(resolver, "_text").some THEN <<>>
  ELSE PushSomeNew(
         PushNew(
           Append(PushSome(<<>>, StandardKaslrBase(get_symbol_address(resolver, "_text").val)),
                  TYPICAL_TEXT_PHYSICAL),
           U64Zero),
         MovedTextBase(get_symbol_address(resolver, "_text").val))

\* MemoryTranslator::set_phys_base
set_phys_base(tr, phys_base) == [tr EXCEPT !.phys_base = phys_base]

\* the candidate loop's tests (main.rs 217-240) on the translation t of init_task
TranslatedAccepts(resolver, mapped, t, init_task_offset) ==
  LET pid_offset == unwrap_or(get_struct_field_offset(resolver, "task_struct", "pid", None), 2384)
      translated_offset == t.val
      offset_diff == IF translated_offset > init_task_offset
                     THEN translated_offset - init_task_offset
                     ELSE init_task_offset - translated_offset
      pid_file_offset == init_task_offset + pid_offset
  IN  /\ t.some
      /\ offset_diff < 4096
      /\ pid_file_offset + 4 <= mapped.len
      /\ read_i32(mapped, pid_file_offset).val = 0

\* a loop body that accepts whatever candidate it is given
AcceptsUntested(resolver, mapped, tr, regions, init_task_offset) == TRUE

\* the body of the candidate loop (main.rs 211-249) for one candidate, run
\* under the translator already set to it: whether it reaches `break`
CandidateAccepts(resolver, mapped, tr, regions, init_task_offset) ==
  TranslatedAccepts(resolver, mapped,
    virtual_to_file_offset(tr, regions, get_symbol_address(resolver, "init_task").val),
    init_task_offset)

\* the regions (in list order) passing the test of main.rs 265-266
RegionsOfOffset(regions, init_task_offset) ==
  {r \in 1..Len(regions) :
     /\ init_task_offset >= regions[r].file_offset
     /\ U64Lt(FromUsize(init_task_offset),
              U64WrappingAdd(FromUsize(regions[r].file_offset),
                             U64WrappingSub(regions[r].end, regions[r].start)))}

\* region.start + (init_task_offset - region.file_offset)  (main.rs 268-269)
PhysicalAddrIn(region, init_task_offset) ==
  U64WrappingAdd(region.start, FromUsize(init_task_offset - region.file_offset))

\* physical_addr.wrapping_sub(init_task_vaddr - KERNEL_MAP_BASE)  (main.rs 281)
CalculatedPhysBase(physical_addr, init_task_vaddr) ==
  U64WrappingSub(physical_addr, U64WrappingSub(init_task_vaddr, KERNEL_MAP_BASE))

----------------------------------------------------------------------------
(* Stage C: the direct-map base (main.rs 305-540)                          *)

DIRECT_RANGE_LO == U64(\hFFFF00, \h00000, \h00000)   \* 0xffff000000000000
DIRECT_RANGE_HI == U64(\hFFFFFF, \hFF000, \h00000)   \* 0xffffffff00000000
GRID_START == U64(\hFFFF80, \h00000, \h00000)        \* 0xffff800000000000
GRID_END == U64(\hFFFFB0, \h00000, \h00000)          \* 0xffffb00000000000
GridCount == 48 * 1024 + 1

\* the n-th (from 0) address of the loop `addr = start; addr += 1 GiB`
GridCandidate(n) == U64(\hFFFF80 + n \div 1024, (n % 1024) * 1024, 0)

\* generate_page_offset_candidates: the two standard bases, then the grid
\* without the addresses already pushed
generate_page_offset_candidates ==
  <<PAGE_OFFSET_4LEVEL, PAGE_OFFSET_5LEVEL>> \o
  SelectSeq([n \in 1..GridCount |-> GridCandidate(n - 1)],
            LAMBDA c : c # PAGE_OFFSET_4LEVEL /\ c # PAGE_OFFSET_5LEVEL)

\* the offsets Stage C reads a candidate task with (main.rs 309-317)
StageCOffsets(resolver) ==
  [ tasks |-> unwrap_or(get_struct_field_offset(resolver, "task_struct", "tasks", None), \hA00),
    pid |-> unwrap_or(get_struct_field_offset(resolver, "task_struct", "pid", None), \hAD0),
    comm |-> unwrap_or(get_struct_field_offset(resolver, "task_struct", "comm", None), \hCF0),
    state |-> unwrap_or(
        IF get_struct_field_offset(resolver, "task_struct", "__state", None).some
        THEN get_struct_field_offset(resolver, "task_struct", "__state", None)
        ELSE get_struct_field_offset(resolver, "task_struct", "state", None), \h18) ]

\* phys_to_file_offset (main.rs 356-364): half-open regions, first match
phys_to_file_offset(regions, phys_addr) ==
  LET hit == {r \in 1..Len(regions) :
                U64Le(regions[r].start, phys_addr) /\ U64Lt(phys_addr, regions[r].end)}
  IN  IF hit = {} THEN None
      ELSE Some(regions[MinOf(hit)].file_offset
                  + ToUsize(U64WrappingSub(phys_addr, regions[MinOf(hit)].start)))

\* a finite set of integers as the ascending sequence of its elements
RECURSIVE Ascending(_)
Ascending(S) == IF S = {} THEN <<>> ELSE <<MinOf(S)>> \o Ascending(S \ {MinOf(S)})

\* the checks and the score of validate_next_task_candidate on what it read
CandidateTaskScore(pid, comm, state, tasks_next) ==
  LET alnum == Cardinality({i \in 1..Len(comm) : is_alphanumeric(comm[i])})
  IN  IF /\ pid.some /\ ~ (pid.val <= 0 \/ pid.val >= 1000000)
         /\ ~ (StrLen(comm) < 2)
         /\ alnum > 0
         /\ \A i \in 1..Len(comm) : is_ascii_graphic(comm[i]) \/ is_whitespace(comm[i])
         /\ state.some /\ ~ (state.val < 0 - 1 \/ state.val > 1024)
         /\ tasks_next.some
         /\ ~ (U64Lt(tasks_next.val, GRID_START) \/ U64Le(SENTINEL_MINUS_1, tasks_next.val))
      THEN Some([ score |-> 20 + StrLen(comm) * 10 + alnum * 5 + 30 + 20
                              + (IF starts_with(comm, Systemd) \/ starts_with(comm, Kthreadd)
                                 THEN 100 ELSE 0),
                  comm |-> comm ])
      ELSE None

\* validate_next_task_candidate (main.rs 367-418): None or Some([score, comm])
validate_next_task_candidate(mapped, off, file_offset) ==
  IF file_offset + off.comm + 16 > mapped.len THEN None
  ELSE CandidateTaskScore(read_i32(mapped, file_offset + off.pid),
                          unwrap_or(read_string(mapped, file_offset + off.comm, 16), EmptyStr),
                          read_i32(mapped, file_offset + off.state),
                          read_u64(mapped, file_offset + off.tasks))

\* a subtraction that is left out
not_subtracted(a, b) == a

\* usize::saturating_sub
saturating_sub(a, b) == IF a >= b THEN a - b ELSE 0

\* the ValidCandidate pushed for a validated candidate (main.rs 467-484)
ValidCandidate(candidate_page_offset, task_struct_base, v) ==
  IF v.some
  THEN Some([ page_offset |-> candidate_page_offset,
              file_offset |-> task_struct_base,
              score |-> v.val.score,
              comm |-> v.val.comm,
              is_4level |-> U64Lt(I64AbsDiff(candidate_page_offset, PAGE_OFFSET_4LEVEL),
                                  I64AbsDiff(candidate_page_offset, PAGE_OFFSET_5LEVEL)) ])
  ELSE None

\* the loop body from `let file_offset = match phys_to_file_offset(..)` on
CandidateAtOffset(mapped, off, candidate_page_offset, file_offset) ==
  IF ~ file_offset.some THEN None
  ELSE ValidCandidate(candidate_page_offset, saturating_sub(file_offset.val, off.tasks),
         validate_next_task_candidate(mapped, off, saturating_sub(file_offset.val, off.tasks)))

\* the body of the loop of main.rs 438-485 for one candidate base: None, or
\* the ValidCandidate pushed
TestCandidate(mapped, regions, off, tasks_next_ptr, candidate_page_offset) ==
  IF RegionsHolding(regions, U64WrappingSub(tasks_next_ptr, candidate_page_offset)) = {}
  THEN None
  ELSE CandidateAtOffset(mapped, off, candidate_page_offset,
         phys_to_file_offset(regions, U64WrappingSub(tasks_next_ptr, candidate_page_offset)))

\* the entries pushed, in the order of the loop
Pushed(tested) ==
  LET kept == Ascending({i \in 1..Len(tested) : tested[i].some})
  IN  [j \in 1..Len(kept) |-> tested[kept[j]].val]

\* where generate_page_offset_candidates holds the n-th (from 0) grid address
CandidateIndex(n) ==
  CASE GridCandidate(n) = PAGE_OFFSET_4LEVEL -> 1
    [] GridCandidate(n) = PAGE_OFFSET_5LEVEL -> 2
    [] OTHER -> 3 + n - Cardinality({m \in {8 * 1024, 8 * 1024 + 512} : m < n})

\* x \div 2^30, for x below 2^60
GiBsIn(x) == x[1] * 1024 + x[2] \div 1024

\* the highest region end
TopOf(regions) ==
  regions[CHOOSE r \in 1..Len(regions) :
            \A q \in 1..Len(regions) : U64Le(regions[q].end, regions[r].end)].end

\* the first grid address (by number) not more than top + 1 GiB below addr
LowestInReach(addr, top) ==
  IF U64Lt(addr, top) \/ U64Lt(U64WrappingSub(addr, top), GRID_START) THEN 0
  ELSE GiBsIn(U64WrappingSub(U64WrappingSub(addr, top), GRID_START))

\* the places in generate_page_offset_candidates, ascending, of the bases b
\* with b <= tasks_next_ptr and tasks_next_ptr - b < top + 1 GiB: under every
\* other base tasks_next_ptr.wrapping_sub(b) is above every region, and the
\* loop body is `continue`
InReachOf(lo, hi) ==
  (IF 8 * 1024 \in lo..hi THEN <<1>> ELSE <<>>)
  \o (IF 8 * 1024 + 512 \in lo..hi THEN <<2>> ELSE <<>>)
  \o SelectSeq([k \in 1..(hi - lo + 1) |-> CandidateIndex(lo + k - 1)], LAMBDA c : c > 2)
InReach(regions, tasks_next_ptr) ==
  IF regions = <<>> \/ U64Lt(tasks_next_ptr, GRID_START) THEN <<>>
  ELSE InReachOf(LowestInReach(tasks_next_ptr, TopOf(regions)),
                 MinOf({GiBsIn(U64WrappingSub(tasks_next_ptr, GRID_START)), GridCount - 1}))

\* valid_candidates after the loop: one entry per passing base, in list order
TestedIn(mapped, regions, off, tasks_next_ptr, reach) ==
  [i \in 1..Len(reach) |->
     TestCandidate(mapped, regions, off, tasks_next_ptr,
                   generate_page_offset_candidates[reach[i]])]
valid_candidates(mapped, regions, off, tasks_next_ptr) ==
  Pushed(TestedIn(mapped, regions, off, tasks_next_ptr, InReach(regions, tasks_next_ptr)))

\* where Vec::sort_by(|a, b| b.score.cmp(&a.score)), a stable sort, puts entry i
RankByScore(valid, i) ==
  1 + Cardinality({j \in 1..Len(valid) :
        \/ valid[j].score > valid[i].score
        \/ valid[j].score = valid[i].score /\ j < i})

\* the candidates left in the order they were pushed
left_unsorted(valid) == valid

\* valid_candidates.sort_by(|a, b| b.score.cmp(&a.score))
sort_by_score(valid) ==
  [p \in 1..Len(valid) |-> valid[CHOOSE i \in 1..Len(valid) : RankByScore(valid, i) = p]]

\* MemoryTranslator::set_page_offset_4level / set_page_offset_5level
set_page_offset_4level(tr, page_offset) == [tr EXCEPT !.page_offset_4level = page_offset]
set_page_offset_5level(tr, page_offset) == [tr EXCEPT !.page_offset_5level = page_offset]

DERIVE_RANGE_HI == U64(\hFFFFC0, \h00000, \h00000)   \* 0xffffc00000000000
DeriveMaxIterations == 50000

\* r.end - r.start of a region, as a usize
RegionSize(region) == ToUsize(U64WrappingSub(region.end, region.start))

\* the step of derive_page_offset_from_init_task's scan of a region
StepSize(region_size) == IF region_size > 512 * B20 THEN 65536 ELSE 4096

\* the body of the scan loop (symbols/mod.rs 892-931) at the n-th (from 0)
\* offset of a region: whether it reaches `return Some(candidate_page_offset)`
DeriveAccepts(memory, region, tasks_offset, tasks_next_vaddr, n) ==
  LET offset == n * StepSize(RegionSize(region))
      candidate_phys == U64WrappingAdd(region.start, FromUsize(offset))
      candidate_page_offset == U64WrappingSub(tasks_next_vaddr, candidate_phys)
      file_offset == region.file_offset + offset
      task_base == file_offset - tasks_offset
      pid == read_i32(memory, task_base + \hAD0)
      comm == read_string(memory, task_base + \hCF0, 16)
  IN  /\ ~ (U64Lt(candidate_page_offset, GRID_START) \/ U64Le(GRID_END, candidate_page_offset))
      /\ ~ (file_offset < tasks_offset)
      /\ pid.some /\ pid.val > 0 /\ pid.val < 1000000
      /\ comm.some /\ StrLen(comm.val) >= 2
      /\ \A i \in 1..Len(comm.val) : is_ascii_graphic(comm.val[i]) \/ is_whitespace(comm.val[i])

\* the offsets (by number, below last) of a region's scan whose pid field is
\* where a cell starts: elsewhere the dump is zero and the pid read is 0
PidSteps(memory, region, tasks_offset, last) ==
  IF memory.chain.some THEN 0..(last - 1)
  ELSE {n \in {(memory.cells[j].o - \hAD0 + tasks_offset - region.file_offset)
                  \div StepSize(RegionSize(region)) : j \in 1..Len(memory.cells)} :
          n >= 0 /\ n < last}

\* the number of offsets the scan of a region visits
StepsOf(region) ==
  IF (RegionSize(region) + StepSize(RegionSize(region)) - 1)
       \div StepSize(RegionSize(region)) > DeriveMaxIterations
  THEN DeriveMaxIterations
  ELSE (RegionSize(region) + StepSize(RegionSize(region)) - 1)
         \div StepSize(RegionSize(region))

\* the offsets (by number) the scan of a region accepts
DeriveHits(memory, region, tasks_offset, tasks_next_vaddr) ==
  {n \in PidSteps(memory, region, tasks_offset, StepsOf(region)) :
     DeriveAccepts(memory, region, tasks_offset, tasks_next_vaddr, n)}

\* where regions_with_sizes.sort_by_key(size), a stable sort, puts region r
RankBySize(regions, r) ==
  1 + Cardinality({q \in 1..Len(regions) :
        \/ RegionSize(regions[q]) < RegionSize(regions[r])
        \/ RegionSize(regions[q]) = RegionSize(regions[r]) /\ q < r})

\* tasks_next_vaddr - (region.start + offset) at the n0-th offset of a region
DerivedAt(region, n0, tasks_next_vaddr) ==
  Some(U64WrappingSub(tasks_next_vaddr,
         U64WrappingAdd(region.start, FromUsize(n0 * StepSize(RegionSize(region))))))

\* the scan's return, found being the regions (not under 1 MiB) with a hit
FirstDerived(memory, regions, tasks_offset, tasks_next_vaddr, found) ==
  LET first == CHOOSE r \in found :
                 \A q \in found : RankBySize(regions, r) <= RankBySize(regions, q)
  IN  IF found = {} THEN None
      ELSE DerivedAt(regions[first],
                     MinOf(DeriveHits(memory, regions[first], tasks_offset, tasks_next_vaddr)),
                     tasks_next_vaddr)

\* derive_page_offset_from_init_task once tasks.next is read
DeriveFrom(memory, regions, tasks_offset, tasks_next_vaddr) ==
  IF U64Lt(tasks_next_vaddr, GRID_START) \/ U64Le(DERIVE_RANGE_HI, tasks_next_vaddr)
  THEN None
  ELSE FirstDerived(memory, regions, tasks_offset, tasks_next_vaddr,
         {r \in 1..Len(regions) :
            /\ ~ (RegionSize(regions[r]) < B20)
            /\ DeriveHits(memory, regions[r], tasks_offset, tasks_next_vaddr) # {}})

\* SymbolResolver::derive_page_offset_from_init_task
derive_page_offset_from_init_task(memory, regions, init_task_file_offset, tasks_offset) ==
  IF ~ read_u64(memory, init_task_file_offset + tasks_offset).some THEN None
  ELSE DeriveFrom(memory, regions, tasks_offset,
                  read_u64(memory, init_task_file_offset + tasks_offset).val)

----------------------------------------------------------------------------
(* The plugins' own search for init_task: SymbolResolver::find_init_task   *)

\* str::trim: without the white space at both ends
trim(s) ==
  LET keep == {i \in 1..Len(s) : ~ is_whitespace(s[i])}
  IN  IF keep = {} THEN <<>> ELSE SubSeq(s, MinOf(keep), MaxOf(keep))

\* the checks of validate_task_struct_with_offsets on the trimmed comm
TrimmedCommValid(comm_trimmed, pid) ==
  /\ comm_trimmed # <<>>
  /\ ~ (\E i \in 1..Len(comm_trimmed) : comm_trimmed[i] = 61)
  /\ ~ (/\ \E i \in 1..Len(comm_trimmed) : comm_trimmed[i] = 41
        /\ comm_trimmed[Len(comm_trimmed)] # 41)
  /\ ~ (Cardinality({i \in 1..Len(comm_trimmed) :
                       is_ascii(comm_trimmed[i]) /\ ~ is_control(comm_trimmed[i])})
          < (StrLen(comm_trimmed) * 4) \div 5)
  /\ (pid = 0 => starts_with(comm_trimmed, Swapper))

\* the checks of validate_task_struct_with_offsets on the pid, comm and state read
TaskFieldsValid(pid, comm, state) ==
  /\ pid.some /\ pid.val >= 0 /\ pid.val <= 4194304
  /\ comm.some /\ comm.val # <<>>
  /\ TrimmedCommValid(trim(comm.val), pid.val)
  /\ state.some /\ ~ (state.val < 0 - 1 \/ state.val > 10)

\* SymbolResolver::validate_task_struct_with_offsets
validate_task_struct_with_offsets(resolver, mapped, offset, pid_offset, comm_offset) ==
  /\ ~ (offset + comm_offset + 16 > mapped.len)
  /\ TaskFieldsValid(
       read_i32(mapped, offset + pid_offset),
       read_string(mapped, offset + comm_offset, 16),
       read_i32(mapped, offset + unwrap_or(
         get_struct_field_offset_fallback(resolver, "task_struct", "state"), 0)))

\* the (pid, comm) offset pairs find_init_task tries, in order (symbols/mod.rs 721-752)
offset_combinations(resolver, mapped) ==
  LET kernel_version == detect_kernel_version(mapped)
      has_pid == <<"task_struct", "pid">> \in DOMAIN resolver.struct_offsets
      has_comm == <<"task_struct", "comm">> \in DOMAIN resolver.struct_offsets
      dwarf == IF has_pid /\ has_comm
               THEN << <<resolver.struct_offsets[<<"task_struct", "pid">>],
                         resolver.struct_offsets[<<"task_struct", "comm">>]>> >>
               ELSE <<>>
      version_pid == unwrap_or(get_offset(kernel_version.val, "task_struct", "pid"), \h328)
      version_comm == unwrap_or(get_offset(kernel_version.val, "task_struct", "comm"), \h4A8)
      versioned ==
        IF /\ kernel_version.some
           /\ \/ ~ has_pid \/ resolver.struct_offsets[<<"task_struct", "pid">>] # version_pid
              \/ ~ has_comm \/ resolver.struct_offsets[<<"task_struct", "comm">>] # version_comm
        THEN <<<<version_pid, version_comm>>>> ELSE <<>>
      common == IF ~ has_pid \/ ~ has_comm
                THEN << <<\h328, \h4A8>>, <<\h320, \h4A0>>, <<\h318, \h498>>, <<\h330, \h4B0>> >>
                ELSE <<>>
  IN  dwarf \o versioned \o common

\* HeuristicHits for the combinations combos
HitsWith(resolver, mapped, pattern, pids, combos) ==
  {h \in find_iter(mapped, pattern) \X (1..Len(combos)) :
     /\ ~ (h[1] < combos[h[2]][2])
     /\ validate_task_struct_with_offsets(resolver, mapped, h[1] - combos[h[2]][2],
                                          combos[h[2]][1], combos[h[2]][2])
     /\ read_i32(mapped, h[1] - combos[h[2]][2] + combos[h[2]][1]).val \in pids}

\* the (match position, combination) pairs at which a search loop of
\* find_init_task returns (symbols/mod.rs 760-790, 796-822)
HeuristicHits(resolver, mapped, pattern, pids) ==
  HitsWith(resolver, mapped, pattern, pids, offset_combinations(resolver, mapped))

\* the first hit: least match position, then first combination
FirstHit(H) == CHOOSE h \in H : \A g \in H : h[1] < g[1] \/ (h[1] = g[1] /\ h[2] <= g[2])

\* what the two search loops return: the first hit's task_struct offset
SearchReturn(combos, swapper, init, ovf) ==
  [ some |-> swapper # {} \/ init # {},
    val |-> IF swapper # {}
            THEN FirstHit(swapper)[1] - combos[FirstHit(swapper)[2]][2]
            ELSE IF init # {}
            THEN FirstHit(init)[1] - combos[FirstHit(init)[2]][2]
            ELSE 0,
    ovf |-> ovf ]

\* strategy 2 of find_init_task: "swapper" with pid 0 or 1, then "init" with pid 1
HeuristicSearch(resolver, mapped, ovf) ==
  SearchReturn(offset_combinations(resolver, mapped),
               HeuristicHits(resolver, mapped, Swapper, {0, 1}),
               HeuristicHits(resolver, mapped, InitStr, {1}),
               ovf)

\* strategy 1 of find_init_task, t being the translation of the symbol
TranslatedOrSearch(resolver, mapped, t) ==
  IF t.some THEN t ELSE HeuristicSearch(resolver, mapped, t.ovf)

\* SymbolResolver::find_init_task with Some(translator): [some, val, ovf]
find_init_task(resolver, mapped, tr, regions) ==
  IF get_symbol_address(resolver, "init_task").some
  THEN TranslatedOrSearch(resolver, mapped,
         virtual_to_file_offset(tr, regions, get_symbol_address(resolver, "init_task").val))
  ELSE HeuristicSearch(resolver, mapped, FALSE)

----------------------------------------------------------------------------
(* The walker (kernel/process_extractor.rs, kernel/mod.rs)                 *)

\* a cap one iteration too high
max_iterations_plus_one == 10000 + 1

\* process_extractor.rs 278
max_iterations == 10000

\* the first n bytes of held followed by zeros
Padded(held, n) == [i \in 1..n |-> IF i <= Len(held) THEN held[i] ELSE 0]

\* the bytes mapped[offset .. offset + n), cut at the end of the buffer
BytesAt(mapped, offset, n) ==
  Padded(IF HasCell(mapped, offset) THEN CellAsBytes(CellAt(mapped, offset)) ELSE <<>>,
         IF offset >= mapped.len THEN 0
         ELSE IF offset + n > mapped.len THEN mapped.len - offset ELSE n)

\* a cmdline: a placeholder text or the bytes read, and whether a
\* translation on the way left the u64 range
Cmd(text, bytes, ovf) == [text |-> text, bytes |-> bytes, ovf |-> ovf]
OrOvf(c, ovf) == [c EXCEPT !.ovf = @ \/ ovf]

\* process_extractor.rs 205-225: NUL to space, from_utf8, trim, not empty
CmdlineText(raw) ==
  LET cmdline_bytes == [i \in 1..Len(raw) |-> IF raw[i] = 0 THEN 32 ELSE raw[i]]
  IN  IF (\E i \in 1..Len(cmdline_bytes) : cmdline_bytes[i] > 127) \/ trim(cmdline_bytes) = <<>>
      THEN Cmd("[cmdline not available]", <<>>, FALSE)
      ELSE Cmd("", trim(cmdline_bytes), FALSE)

\* process_extractor.rs 198-232, args being the translation of arg_start
CmdlineOfArgs(mapped, arg_len, args) ==
  IF ~ args.some THEN Cmd("[cmdline not in memory]", <<>>, args.ovf)
  ELSE OrOvf(CmdlineText(BytesAt(mapped, args.val, ToUsize(arg_len))), args.ovf)

\* process_extractor.rs 192-240
CmdlineOfRange(mapped, tr, regions, arg_start, arg_end) ==
  IF ~ (arg_start # U64Zero /\ U64Lt(arg_start, arg_end))
  THEN Cmd("[no cmdline]", <<>>, FALSE)
  ELSE IF ~ U64Le(U64WrappingSub(arg_end, arg_start), U64(0, 0, 4096))
  THEN Cmd("[invalid cmdline length]", <<>>, FALSE)
  ELSE CmdlineOfArgs(mapped, U64WrappingSub(arg_end, arg_start),
                     virtual_to_file_offset(tr, regions, arg_start))

\* process_extractor.rs 161-247, mm being the translation of mm_ptr
CmdlineOfMm(mapped, tr, regions, resolver, kernel_version, mm) ==
  IF ~ mm.some THEN Cmd("[mm_struct not in memory]", <<>>, mm.ovf)
  ELSE OrOvf(
    CmdlineOfRange(mapped, tr, regions,
      unwrap_or(read_u64(mapped, mm.val + unwrap_or(
        get_struct_field_offset(resolver, "mm_struct", "arg_start", kernel_version), \h108)),
        U64Zero),
      unwrap_or(read_u64(mapped, mm.val + unwrap_or(
        get_struct_field_offset(resolver, "mm_struct", "arg_end", kernel_version), \h110)),
        U64Zero)),
    mm.ovf)

\* process_extractor.rs 159-251
CmdlineOfPtr(mapped, tr, regions, resolver, kernel_version, mm_ptr) ==
  IF mm_ptr = U64Zero THEN Cmd("[kernel thread]", <<>>, FALSE)
  ELSE CmdlineOfMm(mapped, tr, regions, resolver, kernel_version,
                   virtual_to_file_offset(tr, regions, mm_ptr))

\* the cmdline of extract_process_info (process_extractor.rs 147-251)
Cmdline(mapped, tr, regions, resolver, kernel_version, task_struct_offset) ==
  CmdlineOfPtr(mapped, tr, regions, resolver, kernel_version,
    unwrap_or(read_u64(mapped, task_struct_offset + unwrap_or(
      get_struct_field_offset(resolver, "task_struct", "mm", kernel_version), \h350)),
      U64Zero))

\* the offsets extract_process_info looks up (process_extractor.rs 47-71, 118-123)
ExtractorOffsets(resolver, kernel_version) ==
  [ pid |-> unwrap_or(get_struct_field_offset(resolver, "task_struct", "pid", kernel_version), \h328),
    comm |-> unwrap_or(get_struct_field_offset(resolver, "task_struct", "comm", kernel_version), \h4A8),
    parent |-> unwrap_or(get_struct_field_offset(resolver, "task_struct", "parent", kernel_version), \h320),
    start_time |-> unwrap_or(get_struct_field_offset(resolver, "task_struct", "start_time", kernel_version), \h310),
    cred |-> unwrap_or(get_struct_field_offset(resolver, "task_struct", "cred", kernel_version), \h450),
    state |-> unwrap_or(get_struct_field_offset(resolver, "task_struct", "state", kernel_version), 0),
    uid |-> unwrap_or(get_struct_field_offset(resolver, "cred", "uid", kernel_version), 0),
    gid |-> unwrap_or(get_struct_field_offset(resolver, "cred", "gid", kernel_version), 4) ]

\* the 4-byte field read behind a pointer of the task: 0 for a null pointer,
\* one that does not translate, or a read past the buffer
ReadAt(mapped, t, field_offset) ==
  IF t.some THEN unwrap_or(read_i32(mapped, t.val + field_offset), 0) ELSE 0
FieldBehind(mapped, tr, regions, ptr, field_offset) ==
  IF ptr # U64Zero
  THEN ReadAt(mapped, virtual_to_file_offset(tr, regions, ptr), field_offset)
  ELSE 0

\* whether translating a (non-null) pointer of the task leaves the u64 range
TranslationOverflows(tr, regions, ptr) ==
  ptr # U64Zero /\ virtual_to_file_offset(tr, regions, ptr).ovf

\* the state string extract_process_info makes of state_val
\* (process_extractor.rs 138-145); every other value gives "Unknown (n)"
StateName(state_val) ==
  CASE state_val = 0 -> "Running"
    [] state_val = 1 -> "Sleeping"
    [] state_val = 2 -> "Stopped"
    [] state_val = 3 -> "Zombie"
    [] state_val = 4 -> "Tracing Stop"
    [] OTHER -> "Unknown"

\* the ProcessInfo of extract_process_info from the offsets, the two
\* pointers read and the cmdline
ProcessInfoOf(mapped, tr, regions, task_struct_offset, off, parent_ptr, cred_ptr, cmdline) ==
  [ info |->
      [ offset |-> task_struct_offset,
        pid |-> unwrap_or(read_i32(mapped, task_struct_offset + off.pid), 0),
        comm |-> unwrap_or(read_string(mapped, task_struct_offset + off.comm, 16), <<>>),
        comm_known |-> read_string(mapped, task_struct_offset + off.comm, 16).some,
        ppid |-> FieldBehind(mapped, tr, regions, parent_ptr, off.pid),
        start_time |-> unwrap_or(read_u64(mapped, task_struct_offset + off.start_time), U64Zero),
        uid |-> FieldBehind(mapped, tr, regions, cred_ptr, off.uid),
        gid |-> FieldBehind(mapped, tr, regions, cred_ptr, off.gid),
        state |-> unwrap_or(read_i32(mapped, task_struct_offset + off.state), 0),
        cmdline |-> [text |-> cmdline.text, bytes |-> cmdline.bytes] ],
    ovf |-> \/ TranslationOverflows(tr, regions, parent_ptr)
            \/ TranslationOverflows(tr, regions, cred_ptr)
            \/ cmdline.ovf ]

\* extract_process_info with the offsets it looked up
ExtractWith(mapped, tr, regions, resolver, task_struct_offset, kernel_version, off) ==
  ProcessInfoOf(mapped, tr, regions, task_struct_offset, off,
    unwrap_or(read_u64(mapped, task_struct_offset + off.parent), U64Zero),
    unwrap_or(read_u64(mapped, task_struct_offset + off.cred), U64Zero),
    Cmdline(mapped, tr, regions, resolver, kernel_version, task_struct_offset))

\* ProcessExtractor::extract_process_info: the ProcessInfo, and whether a
\* translation on the way left the u64 range
extract_process_info(mapped, tr, regions, resolver, task_struct_offset) ==
  ExtractWith(mapped, tr, regions, resolver, task_struct_offset,
              detect_kernel_version(mapped),
              ExtractorOffsets(resolver, detect_kernel_version(mapped)))

\* validate_process_info, were every record passed
passes_any(proc) == TRUE

\* validate_process_info (kernel/mod.rs 169-248); comm "<unknown>", read
\* where the buffer ends, is 9 printable characters
validate_process_info(proc) ==
  LET len == IF proc.comm_known THEN StrLen(proc.comm) ELSE 9
      printable_count ==
        IF proc.comm_known
        THEN Cardinality({i \in 1..Len(proc.comm) : is_ascii(proc.comm[i]) /\ ~ is_control(proc.comm[i])})
        ELSE 9
      required_printable == IF proc.pid < 300 THEN (len * 3) \div 10 ELSE len \div 2
  IN  IF proc.pid < 0 \/ proc.pid > 4194304 THEN FALSE
      ELSE IF proc.pid = 0 THEN TRUE
      ELSE IF len = 0 THEN FALSE
      ELSE IF printable_count < required_printable THEN FALSE
      ELSE IF proc.uid < 0 \/ proc.uid > 65535 \/ proc.gid < 0 \/ proc.gid > 65535 THEN FALSE
      ELSE TRUE

----------------------------------------------------------------------------
(* Inputs: dumps and catalogues the run is started on                      *)

MiB == B20

\* where a kernel lays the fields out in a task_struct image of the dump
LayoutFallback == [pid |-> \h328, comm |-> \h4A8, tasks |-> 0, state |-> 0]
LayoutModern == [pid |-> \hAD0, comm |-> \hCF0, tasks |-> \hA00, state |-> \h18]

EmptyCatalogue == [k \in {} |-> 0]
ModernCatalogue ==
  (<<"task_struct", "pid">> :> \hAD0) @@ (<<"task_struct", "comm">> :> \hCF0) @@
  (<<"task_struct", "tasks">> :> \hA00) @@ (<<"task_struct", "__state">> :> \h18)

INIT_TASK_SYM == U64(\hFFFFFF, \hFF816, \h00000)   \* 0xffffffff81600000
TEXT_SYM_A == U64(\hFFFFFF, \hFF810, \h00000)      \* 0xffffffff81000000
TEXT_SYM_B == U64(\hFFFFFF, \hFF820, \h00000)      \* 0xffffffff82000000
TEXT_SYM_C == U64(\hFFFFFF, \hFF80F, \hFF800)      \* 0xffffffff80fff800
INIT_TASK_LOW == U64(0, 0, 4096)                    \* 0x1000

NoCells == <<>>

\* the cells of one task_struct image at byte offset base
\* t = [pid, comm, next, prev, state, fill]; fill: non-zero words at +32, +40, ..
TaskCells(base, L, t) ==
  << CellU64(base + L.tasks, t.next),
     CellU64(base + L.tasks + 8, t.prev),
     CellI32(base + L.pid, t.pid),
     CellStr(base + L.comm, t.comm),
     CellI32(base + L.state, t.state) >> \o
  [j \in 1..t.fill |-> CellU64(base + 24 + 8 * j, U64(0, 0, 1))]

\* the kernel-text virtual address that phys_base pb maps to physical address p
TextVaddr(p, pb) == U64WrappingAdd(KERNEL_MAP_BASE, FromUsize(p - pb))
\* the direct-map virtual address of physical address p (a u64) under base
DirectVaddr(p, base) == U64WrappingAdd(base, p)

RawRegions(len) == << [start |-> U64Zero, end |-> FromUsize(len), file_offset |-> 0] >>

\* a symbol file's entries: init and text are <<>> or <<address>>
Symbols(init, text) ==
  [n \in ({"init_task" : x \in DOMAIN init} \cup {"_text" : x \in DOMAIN text}) |->
     IF n = "init_task" THEN init[1] ELSE text[1]]

\* list: for a dump laid out as a circular task list, the offsets of its
\* tasks in list order (what the dump is, not something the program reads)
MkInput(len, regions, lime, cells, symbols, struct_offsets, version) ==
  [ len |-> len, regions |-> regions, lime |-> lime, cells |-> cells, chain |-> None,
    symbols |-> symbols, struct_offsets |-> struct_offsets, version |-> version,
    overflow_checks |-> FALSE, list |-> <<>> ]

RawLen == 64 * MiB

Catalogues == {"empty", "modern"}
CatalogueOf(cat) == IF cat = "modern" THEN ModernCatalogue ELSE EmptyCatalogue
LayoutOf(cat) == IF cat = "modern" THEN LayoutModern ELSE LayoutFallback

\* Stage A inputs: a raw dump with up to two task images, one at the offset
\* shift -2 translates to, one at shift +3 or off the 1-MiB grid
SlotKinds == {"none", "good", "pid1", "sparse", "null", "sentinel", "lowptr", "init"}

SlotCells(kind, base, L) ==
  IF kind = "none" THEN NoCells
  ELSE TaskCells(base, L,
    [ pid |-> IF kind = "pid1" THEN 1 ELSE 0,
      comm |-> IF kind = "init" THEN InitStr ELSE SwapperSlash0,
      next |-> CASE kind = "null" -> U64Zero
                 [] kind = "sentinel" -> SENTINEL_MINUS_2
                 [] kind = "lowptr" -> U64(\h007FFF, \h12340, \h00000)
                 [] OTHER -> TextVaddr(base + L.tasks, 16 * MiB),
      prev |-> TextVaddr(base + L.tasks, 16 * MiB),
      state |-> 0,
      fill |-> IF kind = "sparse" THEN 0 ELSE 3 ])

StageAInputs ==
  { MkInput(RawLen, RawRegions(RawLen), FALSE,
            SlotCells(k1, 36 * MiB, LayoutOf(cat)) \o SlotCells(k2, p2, LayoutOf(cat)),
            Symbols(init, <<>>), CatalogueOf(cat), None) :
      k1 \in SlotKinds, k2 \in {"none", "good", "sparse"},
      p2 \in {41 * MiB, 38 * MiB + 2048},
      cat \in Catalogues,
      init \in {<<>>, <<INIT_TASK_SYM>>} }

\* a one-task list: init_task alone, its tasks.next and prev the address of
\* its own tasks field in the kernel image
InitTaskAlone(base, L, sym) ==
  TaskCells(base, L,
    [ pid |-> 0, comm |-> SwapperSlash0, state |-> 0, fill |-> 3,
      next |-> U64WrappingAdd(sym, FromUsize(L.tasks)),
      prev |-> U64WrappingAdd(sym, FromUsize(L.tasks)) ])

\* Stage B inputs: a raw dump of a kernel loaded so that init_task sits at
\* offset p, and a symbol file with _text
StageBInputs ==
  { [ MkInput(RawLen, RawRegions(RawLen), FALSE,
              InitTaskAlone(p, LayoutFallback, INIT_TASK_SYM),
              Symbols(<<INIT_TASK_SYM>>, <<text>>), EmptyCatalogue, None)
      EXCEPT !.overflow_checks = checks, !.list = <<p>> ] :
      text \in {TEXT_SYM_A, TEXT_SYM_B, TEXT_SYM_C},
      p \in {10 * MiB, 22 * MiB, 38 * MiB, 41 * MiB, 54 * MiB},
      checks \in BOOLEAN }

\* a symbol file whose init_task is not a kernel-image address
LowSymInputs ==
  { [ MkInput(RawLen, RawRegions(RawLen), FALSE,
              InitTaskAlone(36 * MiB, LayoutFallback, INIT_TASK_SYM),
              Symbols(<<INIT_TASK_LOW>>, <<TEXT_SYM_A>>), EmptyCatalogue, None)
      EXCEPT !.overflow_checks = checks ] : checks \in BOOLEAN }

\* LiME dumps: a range of 32 MiB of physical memory from 64 MiB on, then a
\* range of 1 MiB from 128 MiB on, each after its 32-byte header
LimeHeader == 32
LimeRegions ==
  << [ start |-> FromUsize(64 * MiB), end |-> FromUsize(96 * MiB - 1),
       file_offset |-> LimeHeader ],
     [ start |-> FromUsize(128 * MiB), end |-> FromUsize(129 * MiB - 1),
       file_offset |-> LimeHeader + 32 * MiB + LimeHeader ] >>
LimeLen == LimeHeader + 32 * MiB + LimeHeader + MiB

\* init_task at the start of the first range, one 4 KiB page into it, at
\* its last byte, or inside the second header
LimeInputs ==
  { [ MkInput(LimeLen, LimeRegions, TRUE,
              InitTaskAlone(p, LayoutModern, INIT_TASK_SYM),
              Symbols(<<INIT_TASK_SYM>>, <<text>>), ModernCatalogue, None)
      EXCEPT !.list = <<p>> ] :
      text \in {TEXT_SYM_A, TEXT_SYM_B},
      p \in { LimeHeader, LimeHeader + 4096, LimeHeader + 32 * MiB - 1,
              LimeHeader + 32 * MiB + 8 } }

\* Stage C inputs: a LiME dump of two ranges of 64 MiB, the second 1 GiB of
\* physical memory above the first; init_task in the first, and its
\* tasks.next a direct-map pointer, under the base base_true, to the tasks
\* field of a second task 8 MiB into one range; 8 MiB into the other range
\* there may be a decoy image, which a base 1 GiB off base_true leads to
GiB == 1024 * MiB
TwoRanges ==
  << [ start |-> U64Zero, end |-> FromUsize(64 * MiB - 1), file_offset |-> LimeHeader ],
     [ start |-> FromUsize(GiB), end |-> FromUsize(GiB + 64 * MiB - 1),
       file_offset |-> LimeHeader + 64 * MiB + LimeHeader ] >>
TwoRangesLen == LimeHeader + 64 * MiB + LimeHeader + 64 * MiB
AnchorOffset == LimeHeader + 38 * MiB

TrueBases ==
  { PAGE_OFFSET_4LEVEL, PAGE_OFFSET_5LEVEL,
    U64WrappingAdd(PAGE_OFFSET_4LEVEL, U64(0, 3 * 1024, 0)),  \* 3 GiB above
    U64(\hFFFF88, \h40000, \h00000),                 \* half way between the two
    U64WrappingAdd(PAGE_OFFSET_4LEVEL, FromUsize(512 * MiB)) }

\* the image 8 MiB into range r: its tasks field is at a multiple of 4 KiB
ImageCells(r, pid, comm) ==
  TaskCells(TwoRanges[r].file_offset + 8 * MiB - LayoutModern.tasks, LayoutModern,
    [ pid |-> pid, comm |-> comm, state |-> 1, fill |-> 0,
      next |-> U64WrappingAdd(INIT_TASK_SYM, FromUsize(LayoutModern.tasks)),
      prev |-> U64WrappingAdd(INIT_TASK_SYM, FromUsize(LayoutModern.tasks)) ])

SecondTasks == { [pid |-> 2, comm |-> Kthreadd], [pid |-> 1, comm |-> Bash],
                 [pid |-> 0, comm |-> Bash] }
Decoys == { [pid |-> 0, comm |-> <<>>], [pid |-> 7, comm |-> Systemd],
            [pid |-> 7, comm |-> <<115, 104>>], [pid |-> 7, comm |-> Bash] }

StageCInputs ==
  { [ MkInput(TwoRangesLen, TwoRanges, TRUE,
              TaskCells(AnchorOffset, LayoutModern,
                [ pid |-> 0, comm |-> SwapperSlash0, state |-> 0, fill |-> 3,
                  next |-> DirectVaddr(U64WrappingAdd(TwoRanges[r].start, FromUsize(8 * MiB)),
                                       base_true),
                  prev |-> U64Zero ])
              \o ImageCells(r, second.pid, second.comm)
              \o (IF decoy.comm = <<>> THEN NoCells
                  ELSE ImageCells(3 - r, decoy.pid, decoy.comm)),
              Symbols(<<INIT_TASK_SYM>>, <<TEXT_SYM_A>>), ModernCatalogue, None)
      EXCEPT !.list = IF second.pid > 0
                      THEN <<AnchorOffset, TwoRanges[r].file_offset + 8 * MiB - LayoutModern.tasks>>
                      ELSE <<>> ] :
      base_true \in TrueBases, r \in {1, 2}, second \in SecondTasks, decoy \in Decoys }

\* a LiME dump whose second range lies 600 GiB up: the file offsets are those
\* of TwoRanges
HighStart == U64(0, \h96000, 0)                      \* 0x9600000000
HighRanges ==
  << TwoRanges[1],
     [ start |-> HighStart, end |-> U64WrappingAdd(HighStart, FromUsize(64 * MiB - 1)),
       file_offset |-> TwoRanges[2].file_offset ] >>

\* init_task in the first range, the task after it in the high range, under
\* a direct map at or near the four-level base
HighRangeInputs ==
  { [ MkInput(TwoRangesLen, HighRanges, TRUE,
              TaskCells(AnchorOffset, LayoutModern,
                [ pid |-> 0, comm |-> SwapperSlash0, state |-> 0, fill |-> 3,
                  next |-> DirectVaddr(U64WrappingAdd(HighStart, FromUsize(8 * MiB)),
                                       base_true),
                  prev |-> U64Zero ])
              \o ImageCells(2, 2, Kthreadd)
              \o (IF decoy.comm = <<>> THEN NoCells
                  ELSE ImageCells(1, decoy.pid, decoy.comm)),
              Symbols(<<INIT_TASK_SYM>>, <<TEXT_SYM_A>>), ModernCatalogue, None)
      EXCEPT !.list = <<AnchorOffset, TwoRanges[2].file_offset + 8 * MiB - LayoutModern.tasks>> ] :
      base_true \in { PAGE_OFFSET_4LEVEL,
                      U64WrappingAdd(PAGE_OFFSET_4LEVEL, U64(0, 3 * 1024, 0)) },
      decoy \in { [pid |-> 0, comm |-> <<>>], [pid |-> 7, comm |-> Bash] } }

Inputs ==
  StageAInputs \cup StageBInputs \cup LowSymInputs \cup LimeInputs \cup StageCInputs
    \cup HighRangeInputs

----------------------------------------------------------------------------
(* Inputs of the walker: task lists laid out for the translator            *)
(* MemoryTranslator::new() of a raw dump                                   *)

WalkBase == 20 * MiB
WalkStride == 8 * 1024
TaskAt(i) == WalkBase + (i - 1) * WalkStride

\* the address of file offset p in the kernel image / in the direct map,
\* under MemoryTranslator::new()
PtrTo(kind, p) ==
  IF kind = "direct" THEN DirectVaddr(FromUsize(p), PAGE_OFFSET_5LEVEL)
  ELSE TextVaddr(p, 16 * MiB)
USER_ADDR == U64(\h007FFF, \h12340, \h00000)          \* 0x00007fff12340000

RECURSIVE Flatten(_)
Flatten(seqs) == IF seqs = <<>> THEN <<>> ELSE Head(seqs) \o Flatten(Tail(seqs))

\* a dump of Len(nexts) tasks, task i at TaskAt(i) with pid pids[i] and
\* tasks.next nexts[i]; task 1 is "swapper/0", the others "bash"
ListCells(L, pids, nexts) ==
  Flatten([i \in 1..Len(nexts) |->
    TaskCells(TaskAt(i), L,
      [ pid |-> pids[i], comm |-> IF i = 1 THEN SwapperSlash0 ELSE Bash,
        next |-> nexts[i], prev |-> U64Zero, state |-> 0, fill |-> 3 ])])

\* the tasks.next of a circular list of n tasks
CircularNexts(kind, L, n) == [i \in 1..n |-> PtrTo(kind, TaskAt((i % n) + 1) + L.tasks)]

ListInput(cat, pids, nexts, list, checks) ==
  [ MkInput(RawLen, RawRegions(RawLen), FALSE, ListCells(LayoutOf(cat), pids, nexts),
            Symbols(<<>>, <<>>), CatalogueOf(cat), None)
    EXCEPT !.list = list, !.overflow_checks = checks ]

MaxList == 3

\* circular lists of 1..MaxList tasks that all validate
CircularInputs ==
  { ListInput(cat, [i \in 1..n |-> i - 1], CircularNexts(kind, LayoutOf(cat), n),
              [i \in 1..n |-> TaskAt(i)], checks) :
      cat \in Catalogues, kind \in {"text", "direct"}, n \in 1..MaxList, checks \in BOOLEAN }

\* lists that are not circular: the last task points back into the list but
\* not to its first task, nowhere, to user space, or to the end of the dump;
\* and a circular list whose second task does not validate
LastNext(cat, tag) ==
  CASE tag = "second" -> PtrTo("text", TaskAt(2) + LayoutOf(cat).tasks)
    [] tag = "first" -> PtrTo("text", TaskAt(1) + LayoutOf(cat).tasks)
    [] tag = "null" -> U64Zero
    [] tag = "user" -> USER_ADDR
    [] tag = "end" -> PtrTo("text", RawLen)
    [] tag = "near_end" -> PtrTo("text", RawLen - 4)

BrokenShapes ==
  { sh \in {<<0, 1, 2>>, <<0, 0 - 5, 2>>, <<0, 4194305, 2>>}
           \X {"second", "first", "null", "user", "end", "near_end"} :
      ~ (sh[1] = <<0, 1, 2>> /\ sh[2] = "first") }

BrokenInputs ==
  { ListInput(cat, sh[1],
              [i \in 1..3 |-> IF i < 3 THEN PtrTo("text", TaskAt(i + 1) + LayoutOf(cat).tasks)
                              ELSE LastNext(cat, sh[2])],
              [i \in 1..3 |-> TaskAt(i)], FALSE) :
      cat \in Catalogues, sh \in BrokenShapes }

\* circular lists of two tasks, "swapper/0" and a task with the pid, the comm
\* and, behind its cred pointer, the uid and the gid of a shape
CredAt == WalkBase + 4 * MiB
RecordShapes ==
  { [pid |-> pid, comm |-> comm, uid |-> ids[1], gid |-> ids[2]] :
      pid \in {0 - 1, 0, 42, 299, 300, 4194304, 4194305},
      comm \in {<<>>, Bash, <<1, 2, 3>>, <<1, 2, 65>>, <<1, 65>>},
      ids \in {<<0, 0>>, <<65535, 65535>>, <<65536, 0>>, <<0, 65536>>} }
RecordCells(L, cred_offset, sh) ==
  TaskCells(TaskAt(1), L,
    [ pid |-> 0, comm |-> SwapperSlash0, next |-> PtrTo("direct", TaskAt(2) + L.tasks),
      prev |-> U64Zero, state |-> 0, fill |-> 3 ])
  \o TaskCells(TaskAt(2), L,
    [ pid |-> sh.pid, comm |-> sh.comm, next |-> PtrTo("direct", TaskAt(1) + L.tasks),
      prev |-> U64Zero, state |-> 0, fill |-> 3 ])
  \o << CellU64(TaskAt(2) + cred_offset, PtrTo("direct", CredAt)),
        CellI32(CredAt, sh.uid), CellI32(CredAt + 4, sh.gid) >>
RecordInputs ==
  { [ MkInput(RawLen, RawRegions(RawLen), FALSE, RecordCells(LayoutOf(cat), \h450, sh),
              Symbols(<<>>, <<>>), CatalogueOf(cat), None)
      EXCEPT !.list = <<TaskAt(1), TaskAt(2)>> ] :
      cat \in {"modern"}, sh \in RecordShapes }

\* a 4 MiB raw dump with no catalogue holding one task image at 0x2000:
\* pid 0, comm "swapper", no parent, tasks.next the address of its own
\* tasks field in the direct map or in the kernel image (phys_base 0)
SwapperAt == 2 * 4096
SwapperOnlyInputs ==
  { [ MkInput(4 * MiB, RawRegions(4 * MiB), FALSE,
              TaskCells(SwapperAt, LayoutFallback,
                [ pid |-> 0, comm |-> Swapper, next |-> next, prev |-> next,
                  state |-> 0, fill |-> 0 ]),
              Symbols(<<>>, <<>>), EmptyCatalogue, None)
      EXCEPT !.list = <<SwapperAt>> ] :
      next \in { DirectVaddr(FromUsize(SwapperAt), PAGE_OFFSET_5LEVEL),
                 DirectVaddr(FromUsize(SwapperAt), PAGE_OFFSET_4LEVEL),
                 TextVaddr(SwapperAt, 0) } }

ChainLen == 10002

\* a circular list of count tasks, WalkStride \div 2 bytes apart from
\* WalkBase on, with the pids first_pid, first_pid + 1, ..
ChainOf(cat, count, first_pid) ==
  [ base |-> WalkBase, stride |-> WalkStride \div 2, count |-> count,
    tasks |-> LayoutOf(cat).tasks, pid |-> LayoutOf(cat).pid, comm |-> LayoutOf(cat).comm,
    next0 |-> PtrTo("text", WalkBase + LayoutOf(cat).tasks),
    last_next |-> PtrTo("text", WalkBase + LayoutOf(cat).tasks),
    first_pid |-> first_pid, comm_bytes |-> Bash ]

ChainInput(first_pid) ==
  [ MkInput(RawLen, RawRegions(RawLen), FALSE, NoCells, Symbols(<<>>, <<>>),
            CatalogueOf("modern"), None)
    EXCEPT !.chain = Some(ChainOf("modern", ChainLen, first_pid)) ]

\* a list longer than the walker's cap: of tasks that all validate, and of
\* images whose pid field is no pid
LongListInputs == {ChainInput(0)}
LongJunkInputs == {ChainInput(0 - 2 * ChainLen)}

\* dumps with a "Linux version" banner: a circular list of two tasks laid
\* out by the catalogue, or by the row of the version when it is empty
BannerVersions == { [major |-> 4, minor |-> 19], [major |-> 5, minor |-> 15],
                    [major |-> 6, minor |-> 1] }
BannerLayout(cat, v) ==
  IF cat = "modern" THEN LayoutModern
  ELSE [ pid |-> load_offsets_for_version(v).pid, comm |-> load_offsets_for_version(v).comm,
         tasks |-> load_offsets_for_version(v).tasks,
         state |-> load_offsets_for_version(v).state ]
BannerInputs ==
  { [ MkInput(RawLen, RawRegions(RawLen), FALSE,
              ListCells(BannerLayout(cat, v), <<0, 1>>,
                        CircularNexts(kind, BannerLayout(cat, v), 2)),
              Symbols(<<>>, <<>>), CatalogueOf(cat), Some(v))
      EXCEPT !.list = <<TaskAt(1), TaskAt(2)>>, !.overflow_checks = TRUE ] :
      cat \in Catalogues, kind \in {"text", "direct"}, v \in BannerVersions }

WalkInputs ==
  CircularInputs \cup BrokenInputs \cup RecordInputs \cup SwapperOnlyInputs \cup BannerInputs
LongWalkInputs == CircularInputs \cup LongListInputs
AnyWalkInputs == CircularInputs \cup BrokenInputs \cup LongJunkInputs

\* the tasks of a dump laid out as a list, in list order from the first
\* task on: how many there are (0 for any other dump), the offset of
\* the i-th, and the place of the task at an offset (0: none is there)
ListLen(in) == IF in.chain.some THEN in.chain.val.count ELSE Len(in.list)
ListAt(in, i) ==
  IF in.chain.some THEN in.chain.val.base + (i - 1) * in.chain.val.stride ELSE in.list[i]
ListPlace(in, offset) ==
  IF in.chain.some
  THEN IF InChain(in, offset) /\ (offset - in.chain.val.base) % in.chain.val.stride = 0
       THEN (offset - in.chain.val.base) \div in.chain.val.stride + 1 ELSE 0
  ELSE IF \E k \in 1..Len(in.list) : in.list[k] = offset
       THEN CHOOSE k \in 1..Len(in.list) : in.list[k] = offset ELSE 0

WalkTranslators == {MemoryTranslator_new, set_phys_base(MemoryTranslator_new, U64Zero)}

\* the anchors walk_process_list is called with: the first task, the
\* second, and an offset past the buffer
AnchorsOf(in) ==
  IF in.chain.some THEN {WalkBase}
  ELSE IF in.list = <<SwapperAt>> THEN {SwapperAt}
  ELSE {WalkBase, TaskAt(2), RawLen}

----------------------------------------------------------------------------
(* The run: main from Stage A on, then the plugin                          *)

NoStageA == [ret |-> None, via |-> "none"]
NoStageB == [candidates |-> <<>>, i |-> 0, accepted |-> 0, how |-> "none"]
NoStageC == [ tasks_next |-> None, valid |-> <<>>, derived |-> None, before |-> None,
              how |-> "none" ]
NoCall == [fn |-> "none"]
NoWalk == [ started |-> FALSE, init_task_offset |-> 0, current_offset |-> 0,
            visited |-> {}, iterations |-> 0, processes |-> <<>>, stop |-> "none" ]

Init ==
  /\ input \in Inputs
  /\ pc = "stageA"
  /\ translator = MemoryTranslator_new
  /\ stageA = NoStageA
  /\ stageB = NoStageB
  /\ stageC = NoStageC
  /\ context = None
  /\ walk = NoWalk
  /\ outcome = "running"
  /\ call = NoCall

\* what Stage A has once the shift loop / the swapper scan is over
ShiftScanned(ret) == [ret |-> ret, via |-> IF ret.some THEN "shift" ELSE "none"]
SwapperScanned(hit) ==
  IF hit.some
  THEN [ret |-> Some([offset_bytes |-> 0, file_offset |-> hit.val]), via |-> "swapper"]
  ELSE [ret |-> None, via |-> "swapper"]

\* detect_kaslr_offset up to the end of the shift loop (symbols/mod.rs 197-328);
\* without an init_task symbol the `?` at line 203 returns None at once
StageA_ShiftScan ==
  /\ pc = "stageA"
  /\ stageA' = ShiftScanned(IF get_symbol_address(input, "init_task").some
                            THEN ShiftScan(input, input, translator, input.regions)
                            ELSE None)
  /\ pc' = IF stageA'.ret.some THEN "stageB"
           ELSE IF get_symbol_address(input, "init_task").some THEN "swapper"
           ELSE "exit"
  /\ outcome' = IF stageA'.ret.some \/ get_symbol_address(input, "init_task").some
                THEN outcome ELSE "SymbolNotFound"
  /\ UNCHANGED <<call, input, translator, stageB, stageC, context, walk>>

\* the fallback of detect_kaslr_offset (symbols/mod.rs 330-345) and main's
\* ok_or_else (main.rs 177-181)
StageA_SwapperScan ==
  /\ pc = "swapper"
  /\ stageA' = SwapperScanned(find_init_task_by_swapper_string(input, input))
  /\ pc' = IF stageA'.ret.some THEN "stageB" ELSE "exit"
  /\ outcome' = IF stageA'.ret.some THEN outcome ELSE "SymbolNotFound"
  /\ UNCHANGED <<call, input, translator, stageB, stageC, context, walk>>

\* main.rs 187-209 and 298-302: the candidate list; none, or no init_task
\* symbol to validate one with, and Stage B is over
StageB_Start ==
  /\ pc = "stageB"
  /\ LET phys_base_candidates == calculate_phys_base_candidates(input)
     IN  IF phys_base_candidates = <<>>
         THEN /\ stageB' = [stageB EXCEPT !.how = "default"]
              /\ pc' = "stageC"
              /\ UNCHANGED translator
         ELSE IF ~ get_symbol_address(input, "init_task").some
         THEN /\ stageB' = [stageB EXCEPT !.candidates = phys_base_candidates,
                                          !.how = "first_candidate"]
              /\ translator' = set_phys_base(translator, phys_base_candidates[1])
              /\ pc' = "stageC"
         ELSE /\ stageB' = [stageB EXCEPT !.candidates = phys_base_candidates]
              /\ pc' = "stageB_try"
              /\ UNCHANGED translator
  /\ UNCHANGED <<call, input, stageA, stageC, context, walk, outcome>>

\* one turn of the candidate loop (main.rs 211-249); no candidate is large
\* enough for phys_base + offset to leave the u64 range
StageB_Try ==
  /\ pc = "stageB_try"
  /\ LET candidate == stageB.candidates[stageB.i + 1]
         tried == set_phys_base(translator, candidate)
     IN  /\ translator' = tried
         /\ IF CandidateAccepts(input, input, tried, input.regions, stageA.ret.val.file_offset)
            THEN /\ stageB' = [stageB EXCEPT !.i = stageB.i + 1, !.accepted = stageB.i + 1,
                                             !.how = "candidate"]
                 /\ pc' = "stageC"
            ELSE /\ stageB' = [stageB EXCEPT !.i = stageB.i + 1]
                 /\ pc' = IF stageB.i + 1 = Len(stageB.candidates)
                          THEN "stageB_derive" ELSE "stageB_try"
  /\ UNCHANGED <<call, input, stageA, stageC, context, walk, outcome>>

\* main.rs 251-297: phys_base from the region holding the anchor, else the
\* first candidate; init_task_vaddr - KERNEL_MAP_BASE below zero panics in a
\* build with overflow checks and wraps in one without
StageB_Derive ==
  /\ pc = "stageB_derive"
  /\ LET init_task_offset == stageA.ret.val.file_offset
         init_task_vaddr == get_symbol_address(input, "init_task").val
         hit == RegionsOfOffset(input.regions, init_task_offset)
         physical_addr == PhysicalAddrIn(input.regions[MinOf(hit)], init_task_offset)
     IN  IF hit = {}
         THEN /\ translator' = set_phys_base(translator, stageB.candidates[1])
              /\ stageB' = [stageB EXCEPT !.how = "first_candidate"]
              /\ pc' = "stageC"
              /\ UNCHANGED outcome
         ELSE IF U64Lt(init_task_vaddr, KERNEL_MAP_BASE) /\ input.overflow_checks
         THEN /\ pc' = "exit"
              /\ outcome' = "panic"
              /\ UNCHANGED <<translator, stageB>>
         ELSE /\ translator' = set_phys_base(translator,
                                 CalculatedPhysBase(physical_addr, init_task_vaddr))
              /\ stageB' = [stageB EXCEPT !.how = "derived"]
              /\ pc' = "stageC"
              /\ UNCHANGED outcome
  /\ UNCHANGED <<call, input, stageA, stageC, context, walk>>

\* main.rs 341-346: whether tasks.next is a direct-map pointer
InDirectRange(p) == U64Le(DIRECT_RANGE_LO, p) /\ U64Lt(p, DIRECT_RANGE_HI)

\* what Stage C found (main.rs 341-539): valid is the sorted valid_candidates,
\* derived what derive_page_offset_from_init_task returns when there is none
StageCRecord(tr, tasks_next_ptr, valid, derived) ==
  [ tasks_next |-> tasks_next_ptr,
    valid |-> IF InDirectRange(tasks_next_ptr.val) THEN valid ELSE <<>>,
    derived |-> IF InDirectRange(tasks_next_ptr.val) /\ valid = <<>> THEN derived ELSE None,
    before |-> Some(tr),
    how |-> IF ~ InDirectRange(tasks_next_ptr.val) THEN "not_needed"
            ELSE IF valid # <<>> THEN "candidate"
            ELSE IF derived.some THEN "derived"
            ELSE "defaults" ]

\* the translator Stage C would leave, were phys_base written again with it
StageCTranslatorAndBase(tr, found) ==
  CASE found.how = "candidate" ->
         set_phys_base(IF found.valid[1].is_4level
                       THEN set_page_offset_4level(tr, found.valid[1].page_offset)
                       ELSE set_page_offset_5level(tr, found.valid[1].page_offset),
                       U64WrappingAdd(tr.phys_base, U64(0, 1, 0)))
    [] found.how = "derived" ->
         set_page_offset_4level(set_page_offset_5level(tr, found.derived.val),
                                found.derived.val)
    [] OTHER -> tr

\* the translator Stage C leaves (main.rs 498-537)
StageCTranslator(tr, found) ==
  CASE found.how = "candidate" ->
         IF found.valid[1].is_4level
         THEN set_page_offset_4level(tr, found.valid[1].page_offset)
         ELSE set_page_offset_5level(tr, found.valid[1].page_offset)
    [] found.how = "derived" ->
         set_page_offset_4level(set_page_offset_5level(tr, found.derived.val),
                                found.derived.val)
    [] OTHER -> tr

\* main.rs 305-540: Stage C
StageC ==
  /\ pc = "stageC"
  /\ LET off == StageCOffsets(input)
         tasks_next_ptr == read_u64(input, stageA.ret.val.file_offset + off.tasks)
     IN  IF ~ tasks_next_ptr.some
         THEN /\ pc' = "exit"
              /\ outcome' = "ParseError"
              /\ UNCHANGED <<translator, stageC>>
         ELSE /\ stageC' = StageCRecord(translator, tasks_next_ptr,
                             sort_by_score(valid_candidates(input, input.regions, off,
                                                            tasks_next_ptr.val)),
                             derive_page_offset_from_init_task(input, input.regions,
                               stageA.ret.val.file_offset, off.tasks))
              /\ translator' = StageCTranslator(translator, stageC')
              /\ pc' = "publish"
              /\ UNCHANGED outcome
  /\ UNCHANGED <<call, input, stageA, stageB, context, walk>>

\* main.rs 542-548: the analysis context
Publish ==
  /\ pc = "publish"
  /\ context' = Some([init_task_offset |-> stageA.ret.val.file_offset, translator |-> translator])
  /\ pc' = "plugin"
  /\ UNCHANGED <<call, input, translator, stageA, stageB, stageC, walk, outcome>>

\* PsListPlugin::run / PsTreePlugin::run up to the call of walk_process_list
\* (pslist.rs 17-36, pstree.rs 86-101)
PluginRun ==
  /\ pc = "plugin"
  /\ \E found \in {find_init_task(input, input, translator, input.regions)} :
       IF found.ovf /\ input.overflow_checks
       THEN /\ pc' = "exit"
            /\ outcome' = "panic"
            /\ UNCHANGED walk
       ELSE IF ~ found.some
       THEN /\ pc' = "exit"
            /\ outcome' = "SymbolNotFound"
            /\ UNCHANGED walk
       ELSE /\ pc' = "walk"
            /\ walk' = [NoWalk EXCEPT !.started = TRUE, !.init_task_offset = found.val,
                                      !.current_offset = found.val]
            /\ UNCHANGED outcome
  /\ UNCHANGED <<call, input, translator, stageA, stageB, stageC, context>>

\* process_extractor.rs 336-364: the task at current_offset is visited, and
\* pushed if validate_process_info passes it. processes holds, for each
\* ProcessInfo pushed, the offset it was extracted at: the dump, the
\* translator and the catalogue do not change during a walk, and the record
\* is extract_process_info's of that offset (ProcessInfoAt below)
Entered(w, e) ==
  [w EXCEPT !.visited = w.visited \cup {w.current_offset},
            !.iterations = w.iterations + 1,
            !.processes = IF validate_process_info(e.info)
                          THEN Append(w.processes, w.current_offset) ELSE w.processes]

\* process_extractor.rs 426-446: from next_offset on
MoveTo(mapped, entered, next_offset) ==
  IF next_offset = entered.init_task_offset THEN [entered EXCEPT !.stop = "back_at_init_task"]
  ELSE IF next_offset >= mapped.len THEN [entered EXCEPT !.stop = "next_beyond_buffer"]
  ELSE [entered EXCEPT !.current_offset = next_offset]

\* process_extractor.rs 413-446: t is the translation of next_ptr
FollowTranslated(mapped, tasks_offset, checks, entered, t) ==
  IF t.ovf /\ checks THEN [entered EXCEPT !.stop = "panic"]
  ELSE IF ~ t.some THEN [entered EXCEPT !.stop = "untranslatable_next"]
  ELSE MoveTo(mapped, entered, saturating_sub(t.val, tasks_offset))

\* FollowNext, were the records dropped at a null tasks.next
FollowNextDropping(mapped, tr, regions, tasks_offset, checks, entered, next_ptr) ==
  IF ~ next_ptr.some THEN [entered EXCEPT !.stop = "unreadable_next"]
  ELSE IF next_ptr.val = U64Zero
  THEN [entered EXCEPT !.stop = "null_next", !.processes = <<>>]
  ELSE FollowTranslated(mapped, tasks_offset, checks, entered,
                        virtual_to_file_offset(tr, regions, next_ptr.val))

\* process_extractor.rs 366-446: next_ptr is what read_u64 returned
FollowNext(mapped, tr, regions, tasks_offset, checks, entered, next_ptr) ==
  IF ~ next_ptr.some THEN [entered EXCEPT !.stop = "unreadable_next"]
  ELSE IF next_ptr.val = U64Zero THEN [entered EXCEPT !.stop = "null_next"]
  ELSE FollowTranslated(mapped, tasks_offset, checks, entered,
                        virtual_to_file_offset(tr, regions, next_ptr.val))

\* Visit, were a record that fails validation the end of the walk
VisitUntilInvalid(mapped, tr, regions, tasks_offset, checks, w, e) ==
  IF e.ovf /\ checks
  THEN [w EXCEPT !.visited = w.visited \cup {w.current_offset},
                 !.iterations = w.iterations + 1, !.stop = "panic"]
  ELSE IF ~ validate_process_info(e.info) THEN [Entered(w, e) EXCEPT !.stop = "invalid"]
  ELSE FollowNext(mapped, tr, regions, tasks_offset, checks, Entered(w, e),
                  read_u64(mapped, w.current_offset + tasks_offset))

\* process_extractor.rs 340-446: e is what extract_process_info made of the
\* task at current_offset; a panic in it ends the run
Visit(mapped, tr, regions, tasks_offset, checks, w, e) ==
  IF e.ovf /\ checks
  THEN [w EXCEPT !.visited = w.visited \cup {w.current_offset},
                 !.iterations = w.iterations + 1, !.stop = "panic"]
  ELSE FollowNext(mapped, tr, regions, tasks_offset, checks, Entered(w, e),
                  read_u64(mapped, w.current_offset + tasks_offset))

\* one turn of the loop of walk_process_list (process_extractor.rs 317-447):
\* the locals after it, stop saying which `break` it took ("none": it goes on)
walk_iteration(mapped, tr, regions, resolver, checks, w) ==
  IF w.iterations >= max_iterations THEN [w EXCEPT !.stop = "max_iterations"]
  ELSE IF w.current_offset >= mapped.len THEN [w EXCEPT !.stop = "beyond_buffer"]
  ELSE IF w.current_offset \in w.visited THEN [w EXCEPT !.stop = "visited"]
  ELSE Visit(mapped, tr, regions,
             unwrap_or(get_struct_field_offset(resolver, "task_struct", "tasks",
                                               detect_kernel_version(mapped)), 0),
             checks, w,
             extract_process_info(mapped, tr, regions, resolver, w.current_offset))

\* walk_process_list, one turn of its loop at a time; every `break` is
\* followed by `Ok(processes)`
WalkStep ==
  /\ pc = "walk"
  /\ walk' = walk_iteration(input, translator, input.regions, input,
                            input.overflow_checks, walk)
  /\ pc' = IF walk'.stop = "none" THEN "walk" ELSE "exit"
  /\ outcome' = IF walk'.stop = "none" THEN outcome
                ELSE IF walk'.stop = "panic" THEN "panic" ELSE "Ok"
  /\ UNCHANGED <<call, input, translator, stageA, stageB, stageC, context>>

Next ==
  \/ StageA_ShiftScan
  \/ StageA_SwapperScan
  \/ StageB_Start
  \/ StageB_Try
  \/ StageB_Derive
  \/ StageC
  \/ Publish
  \/ PluginRun
  \/ WalkStep

Spec == Init /\ [][Next]_vars

----------------------------------------------------------------------------
(* walk_process_list on its own: called on any dump, translator, catalogue  *)
(* and anchor                                                              *)

InitWalkOn(inputs) ==
  /\ input \in inputs
  /\ pc = "walk"
  /\ translator \in (IF input.chain.some THEN {MemoryTranslator_new} ELSE WalkTranslators)
  /\ stageA = NoStageA
  /\ stageB = NoStageB
  /\ stageC = NoStageC
  /\ context = None
  /\ \E anchor \in AnchorsOf(input) :
       walk = [NoWalk EXCEPT !.started = TRUE, !.init_task_offset = anchor,
                             !.current_offset = anchor]
  /\ outcome = "running"
  /\ call = NoCall

InitWalk == InitWalkOn(WalkInputs)
InitWalkLong == InitWalkOn(LongWalkInputs)
InitWalkAny == InitWalkOn(AnyWalkInputs)

NextWalk == WalkStep

SpecWalk == InitWalk /\ [][NextWalk]_vars
SpecWalkLong == InitWalkLong /\ [][NextWalk]_vars

\* the loop goes on as long as it can: weak fairness of NextWalk, whose
\* enabling condition is pc = "walk"
FairSpecWalk ==
  InitWalkAny /\ [][NextWalk]_vars /\ ([]<>(pc # "walk") \/ []<><<NextWalk>>_vars)

----------------------------------------------------------------------------
(* C1: the walk ends, within 10 000 distinct offsets                       *)

\* C1 (state part): the number of loop iterations equals the number of
\* distinct offsets visited, is at most 10 000, and bounds the records
C1_Bounded ==
  /\ walk.iterations = Cardinality(walk.visited)
  /\ walk.iterations <= 10000
  /\ Len(walk.processes) <= walk.iterations

\* C1: walk_process_list terminates on every dump, translator, catalogue and
\* anchor, having extracted a record at no more than 10 000 offsets, each
\* visited once
C1_Terminates == [](C1_Bounded) /\ <>(pc = "exit")

\* a walk the cap ended: 10 000 offsets visited on a list of more tasks
C1_Witness ==
  /\ pc = "exit" /\ walk.stop = "max_iterations"
  /\ walk.iterations = 10000 /\ Cardinality(walk.visited) = 10000

----------------------------------------------------------------------------
(* C2: a circular list is walked once round                                *)

\* the tasks offset walk_process_list looks up (process_extractor.rs 285-287)
WalkTasksOffset(mapped, resolver) ==
  unwrap_or(get_struct_field_offset(resolver, "task_struct", "tasks",
                                    detect_kernel_version(mapped)), 0)

\* the ProcessInfo walk_process_list pushed for the task at offset
ProcessInfoAt(offset) ==
  extract_process_info(input, translator, input.regions, input, offset).info

\* the i-th task of the list counted from the anchor on, going round
FromAnchor(i) ==
  ListAt(input, ((ListPlace(input, walk.init_task_offset) + i - 2) % ListLen(input)) + 1)

\* the task at list place i has a tasks.next that translates to the tasks
\* field of the following task, the last one's to the first one's
LinkGoesOn(i, tasks_offset) ==
  /\ read_u64(input, ListAt(input, i) + tasks_offset).some
  /\ virtual_to_file_offset(translator, input.regions,
       read_u64(input, ListAt(input, i) + tasks_offset).val)
     = [ some |-> TRUE, ovf |-> FALSE,
         val |-> ListAt(input, (i % ListLen(input)) + 1) + tasks_offset ]

\* the walk, from a task of a circular list of validating tasks, is over
CircularWalkDone ==
  /\ pc = "exit" /\ walk.started
  /\ ListPlace(input, walk.init_task_offset) > 0
  /\ \A i \in 1..ListLen(input) : LinkGoesOn(i, WalkTasksOffset(input, input))
  /\ \A i \in 1..ListLen(input) : validate_process_info(ProcessInfoAt(ListAt(input, i)))

\* the records are those of the first n tasks from the anchor on, in list order
EmitsFirst(n) ==
  /\ Len(walk.processes) = n
  /\ \A i \in 1..n : ProcessInfoAt(walk.processes[i]).offset = FromAnchor(i)

\* C2 (as stated): a circular list of N >= 1 validating tasks yields exactly
\* N records, one per task in list order from the anchor on, none twice
C2_ExactlyN == CircularWalkDone => EmitsFirst(ListLen(input))

\* C2 (amended): it yields the records of the first min(N, 10 000) tasks in
\* list order from the anchor on, none twice
C2_UpToCap ==
  CircularWalkDone => EmitsFirst(IF ListLen(input) > 10000 THEN 10000 ELSE ListLen(input))

\* a list of two tasks walked from its first task: two records, not three
C2_Witness ==
  /\ CircularWalkDone
  /\ ListLen(input) = 2 /\ ListPlace(input, walk.init_task_offset) = 1
  /\ Len(walk.processes) = 2
  /\ walk.processes[1] # walk.processes[2]
  /\ walk.stop = "back_at_init_task"

----------------------------------------------------------------------------
(* C3 - C5: the anchor of Stage A                                          *)

\* C3: the walk the plugin starts begins at the anchor Stage A found and
\* main published in the context
C3_WalkStartsAtAnchor ==
  (walk.started /\ context.some) => walk.init_task_offset = context.val.init_task_offset

\* C4: the anchor Stage A returns, by the shift scan or by the swapper
\* fallback, passes all four checks: pid 0, at least 3 of the 10 sampled
\* words non-zero, a plausible tasks.next, a comm that starts with "swapper"
C4_AnchorPassesAllChecks ==
  stageA.ret.some =>
    TaskAtShiftAccepts(input, input,
      [some |-> TRUE, val |-> stageA.ret.val.file_offset, ovf |-> FALSE])

\* C5: whatever the catalogue holds, Stage A gives up only after the swapper
\* scan has been run
C5_SwapperScanBeforeGivingUp ==
  (pc = "exit" /\ ~ stageA.ret.some) => stageA.via = "swapper"

----------------------------------------------------------------------------
(* C6: the shift scan                                                      *)

\* whether the task image that (symbol + k MiB) translates to under the
\* default translator passes the checks of the shift scan
PassesAtShift(k) == ShiftAccepts(input, input, MemoryTranslator_new, input.regions, k)

\* C6: the shift scan reports the lowest passing shift k as k * 1 MiB, with
\* the translation of (symbol + k MiB) under the default translator
C6_LowestShift ==
  stageA.via = "shift" =>
    \E k \in (0 - 512)..512 :
      /\ PassesAtShift(k)
      /\ \A j \in (0 - 512)..(k - 1) : ~ PassesAtShift(j)
      /\ stageA.ret.val.offset_bytes = k * 1048576
      /\ virtual_to_file_offset(MemoryTranslator_new, input.regions,
           ShiftedAddr(input.symbols["init_task"], k))
         = [some |-> TRUE, val |-> stageA.ret.val.file_offset, ovf |-> FALSE]

\* the scan reports a shift of +3 MiB
C6_Witness ==
  /\ stageA.via = "shift"
  /\ stageA.ret.val.offset_bytes = 3145728
  /\ stageA.ret.val.file_offset = 41 * MiB

----------------------------------------------------------------------------
(* C7 - C9: phys_base                                                      *)

\* Stage B is over and the run goes on
StageBOver == pc \in {"stageC", "publish", "plugin", "walk"} \/ walk.started

\* whether candidate j translates init_task to less than 4 KiB from the
\* anchor, the pid read at the anchor being 0
Qualifies(j) ==
  LET t == virtual_to_file_offset([translator EXCEPT !.phys_base = stageB.candidates[j]],
                                  input.regions, input.symbols["init_task"])
      anchor == stageA.ret.val.file_offset
      pid == read_i32(input, anchor + unwrap_or(
                 get_struct_field_offset(input, "task_struct", "pid", None), 2384))
  IN  /\ t.some
      /\ t.val - anchor < 4096 /\ anchor - t.val < 4096
      /\ pid.some /\ pid.val = 0

\* C7: Stage B accepts the first candidate, in list order, that qualifies,
\* tries none after it, and leaves it as the translator's phys_base from
\* then on, the walker's start included
C7_FirstQualifying ==
  /\ stageB.how = "candidate" =>
       /\ stageB.accepted \in 1..Len(stageB.candidates)
       /\ stageB.i = stageB.accepted
       /\ Qualifies(stageB.accepted)
       /\ \A j \in 1..(stageB.accepted - 1) : ~ Qualifies(j)
       /\ translator.phys_base = stageB.candidates[stageB.accepted]
  /\ (StageBOver /\ "init_task" \in DOMAIN input.symbols
        /\ \E j \in 1..Len(stageB.candidates) : Qualifies(j))
       => stageB.how = "candidate"

\* the walker started under the second candidate, the first not qualifying
C7_Witness ==
  /\ walk.started
  /\ stageB.how = "candidate" /\ stageB.accepted = 2
  /\ translator.phys_base = stageB.candidates[2]

\* the regions whose byte range in the file holds the anchor
RegionsWithAnchor ==
  {r \in 1..Len(input.regions) :
     /\ stageA.ret.val.file_offset >= input.regions[r].file_offset
     /\ stageA.ret.val.file_offset - input.regions[r].file_offset
          <= ToUsize(U64WrappingSub(input.regions[r].end, input.regions[r].start))}

\* C8: when no candidate qualifies and a region's file range holds the
\* anchor, phys_base is (region.start + (anchor - region.file_offset))
\* - (init_task_vaddr - 0xffffffff80000000) from the end of Stage B on
C8_DerivedFromRegion ==
  (/\ StageBOver
   /\ stageB.candidates # <<>> /\ "init_task" \in DOMAIN input.symbols
   /\ \A j \in 1..Len(stageB.candidates) : ~ Qualifies(j)
   /\ RegionsWithAnchor # {})
  => \E r \in RegionsWithAnchor :
       translator.phys_base =
         U64WrappingSub(
           U64WrappingAdd(input.regions[r].start,
             FromUsize(stageA.ret.val.file_offset - input.regions[r].file_offset)),
           U64WrappingSub(input.symbols["init_task"], U64(\hFFFFFF, \hFF800, \h00000)))

\* C9: the walker is never started under a phys_base that Stage B did not
\* validate or derive
C9_NeverUnvalidated == walk.started => stageB.how \in {"candidate", "derived"}

----------------------------------------------------------------------------
(* C10: the direct-map base Stage C writes                                 *)

\* the candidates that passed, in the order they were tested
PassedStageC ==
  valid_candidates(input, input.regions, StageCOffsets(input), stageC.tasks_next.val)

\* whether Stage C wrote base b to the scalar its distance test selects,
\* leaving the other scalar as it was
WrittenTo(b) ==
  IF U64Lt(I64AbsDiff(b, U64(\hFFFF88, \h00000, \h00000)),
           I64AbsDiff(b, U64(\hFFFF88, \h80000, \h00000)))
  THEN /\ translator.page_offset_4level = b
       /\ translator.page_offset_5level = stageC.before.val.page_offset_5level
  ELSE /\ translator.page_offset_5level = b
       /\ translator.page_offset_4level = stageC.before.val.page_offset_4level

\* C10: when candidates pass, Stage C writes one of highest score: to
\* page_offset_4level if it is strictly closer to 0xffff880000000000 than to
\* 0xffff888000000000, else to page_offset_5level; the other scalar is kept
C10_BestCandidateWritten ==
  stageC.how = "candidate" =>
    \E i \in 1..Len(PassedStageC) :
      /\ \A j \in 1..Len(PassedStageC) : PassedStageC[j].score <= PassedStageC[i].score
      /\ WrittenTo(PassedStageC[i].page_offset)

\* two candidates passed, and the one written is not the first tested
C10_Witness ==
  /\ pc = "publish" /\ stageC.how = "candidate"
  /\ Len(PassedStageC) >= 2
  /\ PassedStageC[1].score < PassedStageC[2].score
  /\ translator.page_offset_4level = PassedStageC[2].page_offset

----------------------------------------------------------------------------
(* The translator called on its own, under the scalars the boot-strap can  *)
(* leave and over the region list of a raw or a LiME dump                  *)

\* bases Stage C can write: grid addresses, and addresses its scan derives
WrittenBases ==
  { GRID_START, PAGE_OFFSET_4LEVEL, U64(\hFFFF88, \h00C00, \h00000), PAGE_OFFSET_5LEVEL,
    U64(\hFFFF8B, \h00000, \h00000), U64(\hFFFF90, \h20000, \h00000) }

\* the translators Stage C leaves: a candidate written to one scalar
\* (main.rs 498-513), a derived base written to both (main.rs 519-527)
BootTranslators ==
  {MemoryTranslator_new}
  \cup { StageCTranslator(MemoryTranslator_new,
           [ how |-> "candidate",
             valid |-> << [ page_offset |-> b,
                            is_4level |-> U64Lt(I64AbsDiff(b, PAGE_OFFSET_4LEVEL),
                                                I64AbsDiff(b, PAGE_OFFSET_5LEVEL)) ] >> ]) :
           b \in WrittenBases }
  \cup { StageCTranslator(MemoryTranslator_new, [how |-> "derived", derived |-> Some(b)]) :
           b \in WrittenBases }

SIXTY_FOUR_TIB == U64(\h000040, \h00000, \h00000)         \* 0x400000000000

\* addresses at the edges of the direct-map windows of a translator
EdgeAddrs(tr) ==
  UNION { { b, U64WrappingSub(b, U64(0, 0, 1)), U64WrappingAdd(b, U64(0, 0, 4096)),
            U64WrappingAdd(b, SIXTY_FOUR_TIB),
            U64WrappingSub(U64WrappingAdd(b, SIXTY_FOUR_TIB), U64(0, 0, 1)) } :
          b \in {tr.page_offset_4level, tr.page_offset_5level} }
  \cup { DIRECT_MAP_END_4LEVEL, U64WrappingSub(DIRECT_MAP_END_4LEVEL, U64(0, 0, 1)),
         DIRECT_MAP_END_5LEVEL, U64WrappingSub(DIRECT_MAP_END_5LEVEL, U64(0, 0, 1)),
         U64Zero, USER_ADDR, U64Max }

\* addresses of bytes of the dump: in the kernel image and in the direct map
PhysProbes == {0, 4096, 48 * MiB, 64 * MiB - 1}
MappedAddrs(tr) ==
  { U64WrappingAdd(KERNEL_MAP_BASE, FromUsize(p)) : p \in PhysProbes }
  \cup { U64WrappingAdd(b, U64WrappingAdd(FromUsize(p), g)) :
           b \in {tr.page_offset_4level, tr.page_offset_5level},
           p \in PhysProbes, g \in {U64Zero, FromUsize(GiB)} }

RawProbe ==
  MkInput(RawLen, RawRegions(RawLen), FALSE, NoCells, Symbols(<<>>, <<>>), EmptyCatalogue, None)
LimeProbe ==
  MkInput(TwoRangesLen, TwoRanges, TRUE, NoCells, Symbols(<<>>, <<>>), EmptyCatalogue, None)

TranslatorCalls(tr) ==
  { [fn |-> "virtual_to_physical", v1 |-> v, v2 |-> v, ret1 |-> None, ret2 |-> None] :
      v \in EdgeAddrs(tr) }
  \cup { [fn |-> "virtual_to_file_offset", v1 |-> c[1], v2 |-> c[2], ret1 |-> None, ret2 |-> None] :
           c \in {d \in MappedAddrs(tr) \X MappedAddrs(tr) : U64Lt(d[1], d[2])} }

InitTranslate ==
  /\ input \in {RawProbe, LimeProbe}
  /\ pc = "call"
  /\ translator \in BootTranslators
  /\ stageA = NoStageA
  /\ stageB = NoStageB
  /\ stageC = NoStageC
  /\ context = None
  /\ walk = NoWalk
  /\ outcome = "running"
  /\ call \in TranslatorCalls(translator)

\* MemoryTranslator::virtual_to_physical(v1)
CallVirtualToPhysical ==
  /\ pc = "call" /\ call.fn = "virtual_to_physical"
  /\ call' = [call EXCEPT !.ret1 = virtual_to_physical(translator, call.v1)]
  /\ pc' = "exit"
  /\ UNCHANGED <<input, translator, stageA, stageB, stageC, context, walk, outcome>>

\* MemoryTranslator::virtual_to_file_offset(v1) and (v2)
CallVirtualToFileOffset ==
  /\ pc = "call" /\ call.fn = "virtual_to_file_offset"
  /\ call' = [call EXCEPT
                !.ret1 = virtual_to_file_offset(translator, input.regions, call.v1),
                !.ret2 = virtual_to_file_offset(translator, input.regions, call.v2)]
  /\ pc' = "exit"
  /\ UNCHANGED <<input, translator, stageA, stageB, stageC, context, walk, outcome>>

NextTranslate == CallVirtualToPhysical \/ CallVirtualToFileOffset

SpecTranslate == InitTranslate /\ [][NextTranslate]_vars

\* whether lo <= v < lo + 64 TiB
InWindowOf(lo, v) == U64Le(lo, v) /\ U64Lt(v, U64WrappingAdd(lo, SIXTY_FOUR_TIB))

\* C11: outside the kernel-text window the translator maps v to
\* v - page_offset_5level exactly when v is in [page_offset_5level,
\* page_offset_5level + 64 TiB), otherwise to v - page_offset_4level exactly
\* when v is in [page_offset_4level, page_offset_4level + 64 TiB), and
\* otherwise reports no mapping
C11_DirectMapWindows ==
  (/\ pc = "exit" /\ call.fn = "virtual_to_physical"
   /\ ~ (U64Le(U64(\hFFFFFF, \hFF800, \h00000), call.v1)
           /\ U64Lt(call.v1, U64(\hFFFFFF, \hFFFF0, \h00000))))
  => call.ret1 =
       IF InWindowOf(translator.page_offset_5level, call.v1)
       THEN [ some |-> TRUE, ovf |-> FALSE,
              val |-> U64WrappingSub(call.v1, translator.page_offset_5level) ]
       ELSE IF InWindowOf(translator.page_offset_4level, call.v1)
       THEN [ some |-> TRUE, ovf |-> FALSE,
              val |-> U64WrappingSub(call.v1, translator.page_offset_4level) ]
       ELSE [some |-> FALSE, val |-> U64Zero, ovf |-> FALSE]

\* the window of virtual_to_physical an address falls in
WindowOf(tr, v) ==
  IF U64Le(KERNEL_MAP_BASE, v) /\ U64Lt(v, KERNEL_MAP_END) THEN "text"
  ELSE IF U64Le(tr.page_offset_5level, v) /\ U64Lt(v, DIRECT_MAP_END_5LEVEL) THEN "5level"
  ELSE IF U64Le(tr.page_offset_4level, v) /\ U64Lt(v, DIRECT_MAP_END_4LEVEL) THEN "4level"
  ELSE "none"

\* v1 < v2 fall in the same window and virtual_to_file_offset succeeded on both
BothTranslated ==
  /\ pc = "exit" /\ call.fn = "virtual_to_file_offset"
  /\ U64Lt(call.v1, call.v2)
  /\ WindowOf(translator, call.v1) = WindowOf(translator, call.v2)
  /\ call.ret1.some /\ call.ret2.some

\* the region virtual_to_file_offset took the file offset of v from
RegionTaken(v) ==
  MinOf(RegionsHolding(input.regions, virtual_to_physical(translator, v).val))

\* C13 (as stated): translate(v2) - translate(v1) = v2 - v1 for v1 < v2 of
\* one window, whatever the region list
C13_Linear ==
  BothTranslated =>
    /\ call.ret2.val >= call.ret1.val
    /\ FromUsize(call.ret2.val - call.ret1.val) = U64WrappingSub(call.v2, call.v1)

\* C13 (amended): translate(v2) - translate(v1) = v2 - v1 for v1 < v2 of
\* one window that translate into the same region
C13_LinearWithinRegion ==
  (BothTranslated /\ RegionTaken(call.v1) = RegionTaken(call.v2)) =>
    /\ call.ret2.val >= call.ret1.val
    /\ FromUsize(call.ret2.val - call.ret1.val) = U64WrappingSub(call.v2, call.v1)

\* two direct-map addresses 48 MiB apart translated into the second range
\* of a LiME dump
C13_Witness ==
  /\ BothTranslated
  /\ Len(input.regions) = 2
  /\ RegionTaken(call.v1) = 2 /\ RegionTaken(call.v2) = 2
  /\ call.ret2.val - call.ret1.val = 48 * MiB

----------------------------------------------------------------------------
(* Loading the dump: MemoryMap::parse_lime_header and the regions main     *)
(* builds the translator with (memory/mod.rs, main.rs 71-110)              *)

LIME_MAGIC == 1281969477                                 \* 0x4C694D45
HEADER_SIZE == 32

\* region_size of a segment without the `+ 1`
exclusive_size(start, end) == ToUsize(U64WrappingSub(end, start))

\* (end - start + 1) as usize  (memory/mod.rs 136); no file has end < start
region_size(start, end) ==
  ToUsize(U64WrappingAdd(U64WrappingSub(end, start), U64(0, 0, 1)))

\* MemoryMap::is_lime
is_lime(mapped) == ~ (mapped.len < 4) /\ read_i32(mapped, 0).val = LIME_MAGIC

\* the regions pushed by the loop of parse_lime_header from offset on
RECURSIVE SegmentsFrom(_, _)
SegmentsFrom(mapped, offset) ==
  IF ~ (offset + HEADER_SIZE <= mapped.len) THEN <<>>
  ELSE IF read_i32(mapped, offset).val # LIME_MAGIC THEN <<>>
  ELSE << [ start |-> read_u64(mapped, offset + 8).val,
            end |-> read_u64(mapped, offset + 16).val,
            file_offset |-> offset + HEADER_SIZE ] >>
       \o SegmentsFrom(mapped, offset + HEADER_SIZE
                                 + region_size(read_u64(mapped, offset + 8).val,
                                               read_u64(mapped, offset + 16).val))

\* MemoryMap::parse_lime_header
parse_lime_header(mapped) ==
  IF mapped.len < HEADER_SIZE THEN None
  ELSE IF SegmentsFrom(mapped, 0) = <<>> THEN None
  ELSE Some(SegmentsFrom(mapped, 0))

\* the regions main hands to MemoryTranslator::new (main.rs 72-110)
LoadedRegions(mapped) ==
  IF is_lime(mapped) /\ parse_lime_header(mapped).some
  THEN parse_lime_header(mapped).val
  ELSE << [start |-> U64Zero, end |-> FromUsize(mapped.len), file_offset |-> 0] >>

\* the LiME container of a list of ranges: per range a 32-byte header
\* (magic, version 1, start, end, 8 reserved bytes) and end - start + 1
\* bytes of payload, which here begin with the bytes fill
RECURSIVE EncodedFrom(_, _, _)
EncodedFrom(ranges, offset, fill) ==
  IF ranges = <<>> THEN [len |-> offset, cells |-> <<>>]
  ELSE [ len |-> EncodedFrom(Tail(ranges), offset + 32
                   + ToUsize(U64WrappingSub(Head(ranges).end, Head(ranges).start)) + 1, fill).len,
         cells |-> << CellI32(offset, 1281969477), CellI32(offset + 4, 1),
                      CellU64(offset + 8, Head(ranges).start),
                      CellU64(offset + 16, Head(ranges).end) >>
                   \o (IF fill = 0 \/ U64WrappingSub(Head(ranges).end, Head(ranges).start) = U64Zero
                       THEN <<>> ELSE <<CellI32(offset + 32, fill)>>)
                   \o EncodedFrom(Tail(ranges), offset + 32
                        + ToUsize(U64WrappingSub(Head(ranges).end, Head(ranges).start)) + 1,
                        fill).cells ]

\* a dump file: the container of ranges, cut bytes short of its end
DumpFile(ranges, fill, cut) ==
  [ len |-> EncodedFrom(ranges, 0, fill).len - cut,
    cells |-> EncodedFrom(ranges, 0, fill).cells, chain |-> None ]

\* physical ranges (inclusive), and duplicate-free lists of up to MaxRanges
\* of them that do not overlap
Ranges ==
  { [start |-> FromUsize(lo), end |-> FromUsize(lo + size - 1)] :
      lo \in {0, 8192, MiB}, size \in {1, 4096} }
  \cup { [start |-> U64(1, 0, 0), end |-> U64(1, 0, 4095)] }
MaxRanges == 2
Disjoint(ranges) ==
  \A i, j \in 1..Len(ranges) :
    i # j => U64Lt(ranges[i].end, ranges[j].start) \/ U64Lt(ranges[j].end, ranges[i].start)
RangeLists ==
  {l \in UNION {[1..n -> Ranges] : n \in 0..MaxRanges} : Disjoint(l)}

\* calls on the container of a list, whole or cut short, and on raw dumps
LoadCalls ==
  { [ fn |-> fn, mapped |-> DumpFile(l, fill, cut), ranges |-> l, cut |-> cut,
      ret |-> None ] :
      fn \in {"parse_lime_header", "main"}, l \in RangeLists,
      fill \in {0, 1281969477}, cut \in {0, 1} }
  \cup { [ fn |-> "main", mapped |-> [len |-> n, cells |-> <<>>, chain |-> None],
           ranges |-> <<>>, cut |-> 0, ret |-> None ] : n \in {0, 1, 4096, RawLen} }

InitLoad ==
  /\ input = RawProbe
  /\ pc = "call"
  /\ translator = MemoryTranslator_new
  /\ stageA = NoStageA
  /\ stageB = NoStageB
  /\ stageC = NoStageC
  /\ context = None
  /\ walk = NoWalk
  /\ outcome = "running"
  /\ call \in {c \in LoadCalls : c.mapped.len >= 0}

\* MemoryMap::parse_lime_header on the file
CallParseLimeHeader ==
  /\ pc = "call" /\ call.fn = "parse_lime_header"
  /\ call' = [call EXCEPT !.ret = parse_lime_header(call.mapped)]
  /\ pc' = "exit"
  /\ UNCHANGED <<input, translator, stageA, stageB, stageC, context, walk, outcome>>

\* main.rs 67-110: the regions the translator is built with
CallLoadRegions ==
  /\ pc = "call" /\ call.fn = "main"
  /\ call' = [call EXCEPT !.ret = Some(LoadedRegions(call.mapped))]
  /\ pc' = "exit"
  /\ UNCHANGED <<input, translator, stageA, stageB, stageC, context, walk, outcome>>

NextLoad == CallParseLimeHeader \/ CallLoadRegions

SpecLoad == InitLoad /\ [][NextLoad]_vars

\* C12: every region the translator is built with has end >= start, and the
\* bytes [file_offset, file_offset + (end - start + 1)) of its range lie
\* within the buffer, so that every physical address of the range has its
\* byte in the dump
C12_RegionsWithinBuffer ==
  (pc = "exit" /\ call.fn = "main") =>
    \A r \in 1..Len(call.ret.val) :
      /\ U64Le(call.ret.val[r].start, call.ret.val[r].end)
      /\ call.ret.val[r].file_offset
           + ToUsize(U64WrappingSub(call.ret.val[r].end, call.ret.val[r].start)) + 1
         <= call.mapped.len

\* the list parse_lime_header returned is the list encoded, each range with
\* the position of its first payload byte
ParsedBack ==
  /\ call.ret.some
  /\ Len(call.ret.val) = Len(call.ranges)
  /\ \A r \in 1..Len(call.ranges) :
       /\ call.ret.val[r].start = call.ranges[r].start
       /\ call.ret.val[r].end = call.ranges[r].end
       /\ call.ret.val[r].file_offset
          = EncodedFrom(SubSeq(call.ranges, 1, r - 1), 0, 0).len + 32

\* C14 (as stated): encoding any list of disjoint ranges and parsing the
\* container gives the list back, in order, with the payload positions
C14_RoundTrip ==
  (pc = "exit" /\ call.fn = "parse_lime_header" /\ call.cut = 0) => ParsedBack

\* C14 (amended): so it does for any list of at least one range
C14_RoundTripNonEmpty ==
  (pc = "exit" /\ call.fn = "parse_lime_header" /\ call.cut = 0 /\ call.ranges # <<>>)
    => ParsedBack

\* two ranges parsed back, the second one's payload behind the first one's
C14_Witness ==
  /\ pc = "exit" /\ call.fn = "parse_lime_header" /\ call.cut = 0
  /\ Len(call.ranges) = 2
  /\ ParsedBack
  /\ call.ret.val[2].file_offset = 32 + 4096 + 32

----------------------------------------------------------------------------
(* C15 - C17: the walk at a broken link and at a record that fails          *)
(* validation                                                              *)

\* the task at offset is one validate_process_info passes
Validates(offset) == validate_process_info(ProcessInfoAt(offset))

\* the offsets of the list's tasks at places p, p + 1, .. q, those that
\* validate only
TasksFromTo(p, q) == [i \in 1..(q - p + 1) |-> ListAt(input, p + i - 1)]
ValidatedFromTo(p, q) == SelectSeq(TasksFromTo(p, q), Validates)

\* the walk started at place p of the list has followed the links up to
\* place q and there read a tasks.next of zero
NullNextAt(p, q) ==
  /\ pc = "exit" /\ walk.stop = "null_next"
  /\ p > 0 /\ q >= p
  /\ \A i \in p..(q - 1) : LinkGoesOn(i, WalkTasksOffset(input, input))

\* C15: when the tasks.next of the task visited reads as zero the walker
\* stops, and its result holds, in order, every record validated up to
\* there: none is discarded
C15_RecordsKeptAtNullNext ==
  NullNextAt(ListPlace(input, walk.init_task_offset), ListPlace(input, walk.current_offset))
    => /\ outcome = "Ok"
       /\ walk.processes
          = ValidatedFromTo(ListPlace(input, walk.init_task_offset),
                            ListPlace(input, walk.current_offset))

\* three tasks validated, the third with a tasks.next of zero
C15_Witness ==
  /\ ListLen(input) = 3
  /\ ListPlace(input, walk.init_task_offset) = 1
  /\ walk.current_offset = TaskAt(3)
  /\ NullNextAt(1, 3)
  /\ walk.processes = <<TaskAt(1), TaskAt(2), TaskAt(3)>>

\* C16: a tasks.next that is zero, or that the translator cannot translate,
\* is fatal: the run ends in an error, it does not complete
C16_BrokenLinkIsFatal ==
  (pc = "exit" /\ walk.stop \in {"null_next", "untranslatable_next"})
    => outcome \notin {"Ok", "running"}

\* the walk is over on a list of at most 10 000 tasks whose links all go
\* on, the last one's back to the first, one of whose tasks does not validate
WalkedPastInvalid ==
  /\ pc = "exit" /\ walk.started
  /\ ListPlace(input, walk.init_task_offset) > 0
  /\ ListLen(input) <= 10000
  /\ \A i \in 1..ListLen(input) : LinkGoesOn(i, WalkTasksOffset(input, input))
  /\ \E i \in 1..ListLen(input) : ~ Validates(ListAt(input, i))

\* the tasks of the list in the order the walk meets them
RoundFromAnchor == [i \in 1..ListLen(input) |-> FromAnchor(i)]

\* C17: a record that fails validation is left out and the walk goes on
\* along that task's tasks.next: every task of the list that validates is
\* emitted, those behind the failing one too
C17_WalkGoesOnPastInvalid ==
  WalkedPastInvalid => walk.processes = SelectSeq(RoundFromAnchor, Validates)

\* the second of three tasks fails validation, the first and the third are
\* emitted
C17_Witness ==
  /\ WalkedPastInvalid
  /\ ListLen(input) = 3
  /\ ~ Validates(TaskAt(2))
  /\ walk.processes = <<TaskAt(1), TaskAt(3)>>

----------------------------------------------------------------------------
(* C18 - C20: what validate_process_info lets the walker emit               *)

\* the walker has pushed the record of the task at offset
Emitted(offset) == \E i \in 1..Len(walk.processes) : walk.processes[i] = offset

\* the offsets at which a record was extracted and put to validate_process_info
Validated ==
  {o \in walk.visited : ~ (walk.stop = "panic" /\ o = walk.current_offset)}

\* the bytes of a comm that are printable ASCII
PrintableCount(comm) ==
  Cardinality({i \in 1..Len(comm) : is_ascii(comm[i]) /\ ~ is_control(comm[i])})

\* C18: a record with pid < 0 or pid > 4 194 304 is rejected, one with pid 0
\* is accepted whatever its comm, one with pid > 0 and an empty comm is
\* rejected; so every record emitted has 0 <= pid <= 4 194 304
C18_PidValidated ==
  /\ \A o \in Validated :
       /\ (ProcessInfoAt(o).pid < 0 \/ ProcessInfoAt(o).pid > 4194304) => ~ Emitted(o)
       /\ ProcessInfoAt(o).pid = 0 => Emitted(o)
       /\ (ProcessInfoAt(o).pid > 0 /\ ProcessInfoAt(o).comm_known
             /\ ProcessInfoAt(o).comm = <<>>) => ~ Emitted(o)
  /\ \A i \in 1..Len(walk.processes) :
       /\ ProcessInfoAt(walk.processes[i]).pid >= 0
       /\ ProcessInfoAt(walk.processes[i]).pid <= 4194304

\* a task with pid 4 194 305 was visited and left out, the task before it
\* emitted
C18_Witness ==
  /\ pc = "exit"
  /\ TaskAt(2) \in Validated
  /\ ProcessInfoAt(TaskAt(2)).pid = 4194305
  /\ walk.processes = <<TaskAt(1)>>

\* C19: every record emitted with pid > 0 has a comm that is not empty and
\* of whose bytes at least 50% are printable ASCII, at least 30% when pid < 300
C19_CommMostlyPrintable ==
  \A i \in 1..Len(walk.processes) :
    ProcessInfoAt(walk.processes[i]).pid > 0 =>
      /\ ProcessInfoAt(walk.processes[i]).comm # <<>>
      /\ 100 * PrintableCount(ProcessInfoAt(walk.processes[i]).comm)
         >= (IF ProcessInfoAt(walk.processes[i]).pid < 300 THEN 30 ELSE 50)
            * StrLen(ProcessInfoAt(walk.processes[i]).comm)

\* C20: every record emitted, whatever its pid, has uid <= 65535 and
\* gid <= 65535
C20_IdsInRange ==
  \A i \in 1..Len(walk.processes) :
    /\ ProcessInfoAt(walk.processes[i]).uid \in 0..65535
    /\ ProcessInfoAt(walk.processes[i]).gid \in 0..65535

----------------------------------------------------------------------------
(* Field-offset lookups: SymbolResolver::get_struct_field_offset on any     *)
(* catalogue and any detected kernel version                               *)

\* catalogues of debug-info offsets: any of these entries, each with an
\* offset no table row and no hard-coded constant has for it
CatalogueEntries ==
  (<<"task_struct", "pid">> :> \hAD0) @@ (<<"task_struct", "state">> :> \h10) @@
  (<<"task_struct", "__state">> :> \h18) @@ (<<"cred", "uid">> :> \h8)
LookupCatalogues ==
  { [k \in keys |-> CatalogueEntries[k]] : keys \in SUBSET DOMAIN CatalogueEntries }

\* detected kernel versions: none, the four of the table, and two others
LookupVersions ==
  {None} \cup { Some([major |-> v[1], minor |-> v[2]]) :
                  v \in {<<4, 19>>, <<5, 4>>, <<5, 15>>, <<6, 1>>, <<6, 8>>, <<5, 19>>} }

LookupFields ==
  ({"task_struct"} \X {"pid", "comm", "state", "__state", "tasks", "mm"})
  \cup ({"cred"} \X {"uid", "pid"})

InitLookup ==
  /\ input = RawProbe
  /\ pc = "call"
  /\ translator = MemoryTranslator_new
  /\ stageA = NoStageA
  /\ stageB = NoStageB
  /\ stageC = NoStageC
  /\ context = None
  /\ walk = NoWalk
  /\ outcome = "running"
  /\ call \in { [ fn |-> "get_struct_field_offset", struct_offsets |-> cat,
                  struct_name |-> f[1], field_name |-> f[2], kernel_version |-> v,
                  ret |-> None ] :
                  cat \in LookupCatalogues, f \in LookupFields, v \in LookupVersions }

\* SymbolResolver::get_struct_field_offset
CallGetStructFieldOffset ==
  /\ pc = "call" /\ call.fn = "get_struct_field_offset"
  /\ call' = [call EXCEPT !.ret = get_struct_field_offset(call, call.struct_name,
                                    call.field_name, call.kernel_version)]
  /\ pc' = "exit"
  /\ UNCHANGED <<input, translator, stageA, stageB, stageC, context, walk, outcome>>

NextLookup == CallGetStructFieldOffset

SpecLookup == InitLookup /\ [][NextLookup]_vars

\* the field is in the catalogue; the catalogue holds __state and the
\* lookup is for a task_struct state it does not hold
InCatalogue == <<call.struct_name, call.field_name>> \in DOMAIN call.struct_offsets
RenamedState ==
  /\ call.struct_name = "task_struct" /\ call.field_name = "state"
  /\ <<"task_struct", "__state">> \in DOMAIN call.struct_offsets
  /\ ~ InCatalogue

\* the row of the version table a detected version selects
RowFor(version) ==
  IF <<version.major, version.minor>> \in {<<4, 19>>, <<5, 4>>, <<5, 15>>, <<6, 1>>}
  THEN load_offsets_for_version(version)
  ELSE load_offsets_for_version([major |-> 0, minor |-> 0])
InTable ==
  /\ call.kernel_version.some
  /\ \/ call.struct_name = "task_struct" /\ call.field_name \in TaskStructFields
     \/ call.struct_name = "cred" /\ call.field_name \in CredFields

\* C21: a lookup is answered by the first of: the catalogue entry of the
\* field; for task_struct state, the catalogue entry of __state; the row of
\* the version table for the detected major.minor; the hard-coded constant
C21_LookupOrder ==
  (pc = "exit" /\ call.fn = "get_struct_field_offset") =>
    /\ InCatalogue
         => call.ret = Some(call.struct_offsets[<<call.struct_name, call.field_name>>])
    /\ RenamedState => call.ret = Some(call.struct_offsets[<<"task_struct", "__state">>])
    /\ (~ InCatalogue /\ ~ RenamedState /\ InTable)
         => call.ret = Some(RowFor(call.kernel_version.val)[call.field_name])
    /\ (~ InCatalogue /\ ~ RenamedState /\ ~ InTable)
         => call.ret = HardCodedOffset(call.struct_name, call.field_name)

\* the catalogue's pid offset returned for a 4.19 kernel, whose table row
\* has another
C21_Witness ==
  /\ pc = "exit" /\ call.fn = "get_struct_field_offset"
  /\ call.struct_name = "task_struct" /\ call.field_name = "pid"
  /\ call.kernel_version = Some([major |-> 4, minor |-> 19])
  /\ InCatalogue
  /\ call.ret = Some(\hAD0)
  /\ load_offsets_for_version(call.kernel_version.val).pid = \h318

----------------------------------------------------------------------------
(* extract_process_info on its own: the command line of a task              *)

MmAt == WalkBase + 2 * MiB
ArgsAt == WalkBase + 3 * MiB

\* "/bin/ls\0-l\0/tmp\0\0" and "/bin/ls -l /tmp"
LsArgs == <<47, 98, 105, 110, 47, 108, 115, 0, 45, 108, 0, 47, 116, 109, 112, 0, 0>>
LsCmdline == <<47, 98, 105, 110, 47, 108, 115, 32, 45, 108, 32, 47, 116, 109, 112>>

\* the mm pointer of the task: null, to the mm_struct of the dump, to user
\* space, or past the end of the dump
MmPtrs == {U64Zero, PtrTo("direct", MmAt), USER_ADDR, PtrTo("direct", RawLen + 4096)}

\* arg_start and arg_end of the mm_struct: from 0, from a user-space address
\* and from an address of the direct map, over spans of 0, 20, 4096 and 4097
\* bytes, and with arg_end one below arg_start
ArgStarts == {U64Zero, USER_ADDR, PtrTo("direct", ArgsAt)}
ArgRanges ==
  { <<a, U64WrappingAdd(a, FromUsize(span))>> : a \in ArgStarts, span \in {0, 20, 4096, 4097} }
  \cup { <<a, U64WrappingSub(a, U64(0, 0, 1))>> : a \in ArgStarts \ {U64Zero} }

\* a task "bash" with pid 42 at TaskAt(1), its mm_struct at MmAt and the
\* bytes of its argument area at ArgsAt
CmdlineInputs ==
  { [ MkInput(RawLen, RawRegions(RawLen), FALSE,
              TaskCells(TaskAt(1), LayoutModern,
                [ pid |-> 42, comm |-> Bash, next |-> PtrTo("direct", TaskAt(1) + \hA00),
                  prev |-> U64Zero, state |-> 0, fill |-> 3 ])
              \o << CellU64(TaskAt(1) + \h350, mm),
                    CellU64(MmAt + \h108, range[1]), CellU64(MmAt + \h110, range[2]),
                    CellStr(ArgsAt, args) >>,
              Symbols(<<>>, <<>>), ModernCatalogue, None)
      EXCEPT !.list = <<TaskAt(1)>> ] :
      mm \in MmPtrs, range \in ArgRanges, args \in {LsArgs, <<>>, <<47, 255>>} }

InitExtract ==
  /\ input \in CmdlineInputs
  /\ pc = "call"
  /\ translator \in WalkTranslators \cup BootTranslators
  /\ stageA = NoStageA
  /\ stageB = NoStageB
  /\ stageC = NoStageC
  /\ context = None
  /\ walk = NoWalk
  /\ outcome = "running"
  /\ call = [fn |-> "extract_process_info", task_struct_offset |-> TaskAt(1), ret |-> None]

\* ProcessExtractor::extract_process_info on the task
CallExtractProcessInfo ==
  /\ pc = "call" /\ call.fn = "extract_process_info"
  /\ call' = [call EXCEPT !.ret = Some(extract_process_info(input, translator, input.regions,
                                         input, call.task_struct_offset))]
  /\ pc' = "exit"
  /\ UNCHANGED <<input, translator, stageA, stageB, stageC, context, walk, outcome>>

NextExtract == CallExtractProcessInfo

SpecExtract == InitExtract /\ [][NextExtract]_vars

\* what the task holds: its mm pointer, and arg_start and arg_end of the
\* mm_struct the pointer leads to
MmPtrOf == unwrap_or(read_u64(input, call.task_struct_offset + \h350), U64Zero)
MmOf == virtual_to_file_offset(translator, input.regions, MmPtrOf)
ArgStartOf == unwrap_or(read_u64(input, MmOf.val + \h108), U64Zero)
ArgEndOf == unwrap_or(read_u64(input, MmOf.val + \h110), U64Zero)

Extracted == pc = "exit" /\ call.fn = "extract_process_info"
CmdlineOfRecord == call.ret.val.info.cmdline

FivePlaceholders ==
  { "[kernel thread]", "[mm_struct not in memory]", "[cmdline not in memory]",
    "[invalid cmdline length]", "[cmdline not available]" }

\* the cmdline is a string read from the argument area: not empty, trimmed
ReadFromArgs ==
  /\ CmdlineOfRecord.text = ""
  /\ CmdlineOfRecord.bytes # <<>>
  /\ trim(CmdlineOfRecord.bytes) = CmdlineOfRecord.bytes

\* C22: the cmdline of a record is a non-empty trimmed string read from the
\* argument area or one of the five placeholders; "[kernel thread]" exactly
\* when the mm pointer is zero, "[mm_struct not in memory]" exactly when it
\* is not zero and does not translate
C22_CmdlineOrPlaceholder ==
  Extracted =>
    /\ ReadFromArgs \/ CmdlineOfRecord.text \in FivePlaceholders
    /\ CmdlineOfRecord.text = "[kernel thread]" <=> MmPtrOf = U64Zero
    /\ CmdlineOfRecord.text = "[mm_struct not in memory]"
         <=> (MmPtrOf # U64Zero /\ ~ MmOf.some)

\* C23: with a resident mm_struct holding arg_start = 0x7fff12340000 and
\* arg_end = 0x7fff12340014, arg_start is translated to a byte offset, and
\* with the bytes "/bin/ls\0-l\0/tmp\0\0" there the cmdline is
\* "/bin/ls -l /tmp"
C23_UserArgsRead ==
  ( /\ Extracted
    /\ MmPtrOf # U64Zero /\ MmOf.some
    /\ ArgStartOf = USER_ADDR
    /\ ArgEndOf = U64WrappingAdd(USER_ADDR, U64(0, 0, 20)) )
  => /\ virtual_to_file_offset(translator, input.regions, ArgStartOf).some
     /\ BytesAt(input, virtual_to_file_offset(translator, input.regions, ArgStartOf).val, 17)
          = LsArgs
        => (CmdlineOfRecord.text = "" /\ CmdlineOfRecord.bytes = LsCmdline)

----------------------------------------------------------------------------
(* C24: the walk of a dump that holds the swapper task only                *)

\* the walk is over on a raw dump with an empty catalogue, from an anchor
\* at 0x2000 with pid 0, comm "swapper", a zero parent pointer and a
\* tasks.next that translates to the anchor's own tasks field
SwapperOnlyWalked ==
  /\ pc = "exit" /\ walk.started
  /\ ~ input.lime /\ DOMAIN input.struct_offsets = {}
  /\ walk.init_task_offset = SwapperAt
  /\ read_i32(input, SwapperAt + ExtractorOffsets(input, detect_kernel_version(input)).pid)
       = Some(0)
  /\ read_string(input, SwapperAt + ExtractorOffsets(input, detect_kernel_version(input)).comm,
                 16) = Some(Swapper)
  /\ read_u64(input, SwapperAt + ExtractorOffsets(input, detect_kernel_version(input)).parent)
       = Some(U64Zero)
  /\ read_u64(input, SwapperAt + WalkTasksOffset(input, input)).some
  /\ virtual_to_file_offset(translator, input.regions,
       read_u64(input, SwapperAt + WalkTasksOffset(input, input)).val)
     = [some |-> TRUE, ovf |-> FALSE, val |-> SwapperAt + WalkTasksOffset(input, input)]

\* C24: that walk yields exactly one record, with pid 0, comm "swapper",
\* ppid 0 and state "Running"
C24_OneSwapperRecord ==
  SwapperOnlyWalked =>
    /\ Len(walk.processes) = 1
    /\ ProcessInfoAt(walk.processes[1]).pid = 0
    /\ ProcessInfoAt(walk.processes[1]).comm = Swapper
    /\ ProcessInfoAt(walk.processes[1]).ppid = 0
    /\ StateName(ProcessInfoAt(walk.processes[1]).state) = "Running"

----------------------------------------------------------------------------
(* C25: the order of the stages                                            *)

\* a step of Stage B, which writes phys_base, and the step of Stage C,
\* which writes the direct-map bases
PhysBaseWritten == translator'.phys_base # translator.phys_base \/ stageB' # stageB
DirectMapWritten ==
  \/ translator'.page_offset_4level # translator.page_offset_4level
  \/ translator'.page_offset_5level # translator.page_offset_5level
  \/ stageC' # stageC

\* C25: Stage A has returned the anchor before phys_base is written; every
\* write to phys_base comes before Stage C and its writes to the direct-map
\* bases; every write to the translator comes before the analysis context
\* is made; and from the start of the walk on phys_base, the two direct-map
\* bases and the region list do not change
C25_StagesInOrder ==
  [][ /\ PhysBaseWritten => (stageA.ret.some /\ stageC' = NoStageC /\ ~ DirectMapWritten)
      /\ DirectMapWritten => (stageA.ret.some /\ stageC = NoStageC /\ stageC' # NoStageC)
      /\ (PhysBaseWritten \/ DirectMapWritten) => (context = None /\ context' = None)
      /\ context' # context => (context = None /\ translator' = translator
                                 /\ context'.val.translator = translator)
      /\ (walk.started \/ walk'.started)
           => (translator' = translator /\ input'.regions = input.regions)
    ]_vars

\* a walk under a phys_base Stage B wrote and a direct-map base Stage C wrote
C25_Witness ==
  /\ pc = "walk" /\ walk.started /\ walk.iterations > 0
  /\ context.some
  /\ stageB.how # "none"
  /\ stageC.how = "candidate"
  /\ translator # [MemoryTranslator_new EXCEPT !.phys_base = translator.phys_base]

----------------------------------------------------------------------------
(* Debug-information files: DwarfSymbols (core/dwarf.rs)                    *)

\* JSON values: an unsigned integer, a negative number, a string, null, and
\* an object (its members by name)
JsonNum(u) == [k |-> "num", n |-> u, members |-> <<>>]
JsonObj(members) == [k |-> "obj", n |-> U64Zero, members |-> members]
JsonOther(kind) == [k |-> kind, n |-> U64Zero, members |-> <<>>]

\* serde_json::Value::as_u64
as_u64(value) == IF value.k = "num" THEN Some(value.n) ELSE None

\* the old format only: the value as an integer
direct_value_only(value) == as_u64(value)

\* the closure of get_symbol_address and get_symbols (dwarf.rs 80-88, 103-110)
AddressOfValue(value) ==
  IF value.k = "obj" /\ "address" \in DOMAIN value.members
  THEN as_u64(value.members["address"])
  ELSE as_u64(value)

\* DwarfSymbols::get_symbol_address
DwarfSymbols_get_symbol_address(dwarf, name) ==
  IF name \in DOMAIN dwarf.symbols THEN AddressOfValue(dwarf.symbols[name]) ELSE None

\* DwarfSymbols::get_symbols
get_symbols(dwarf) ==
  [name \in {n \in DOMAIN dwarf.symbols : AddressOfValue(dwarf.symbols[n]).some} |->
     AddressOfValue(dwarf.symbols[name]).val]

\* DwarfField as deserialised: offset defaults to 0, type is kept unread
DwarfField(json) ==
  [ offset |-> IF "offset" \in DOMAIN json THEN json["offset"] ELSE 0,
    field_type |-> IF "type" \in DOMAIN json THEN json["type"] ELSE JsonOther("null") ]

\* DwarfSymbols::get_struct_offsets
get_struct_offsets(dwarf, struct_name) ==
  IF struct_name \in DOMAIN dwarf.user_types /\ dwarf.user_types[struct_name].fields.some
  THEN Some([f \in DOMAIN dwarf.user_types[struct_name].fields.val |->
               DwarfField(dwarf.user_types[struct_name].fields.val[f]).offset])
  ELSE None

\* DwarfSymbols::get_field_offset
get_field_offset(dwarf, struct_name, field_name) ==
  IF /\ struct_name \in DOMAIN dwarf.user_types
     /\ dwarf.user_types[struct_name].fields.some
     /\ field_name \in DOMAIN dwarf.user_types[struct_name].fields.val
  THEN Some(DwarfField(dwarf.user_types[struct_name].fields.val[field_name]).offset)
  ELSE None

\* the values a file gives a symbol: the address itself (old format), an
\* object with the address alone or among other members (new format), and
\* values of neither shape
TypeObject == JsonObj(("kind" :> JsonOther("string")) @@ ("name" :> JsonOther("string")))
SymbolValues(a) ==
  { JsonNum(a),
    JsonObj("address" :> JsonNum(a)),
    JsonObj(("type" :> TypeObject) @@ ("address" :> JsonNum(a))),
    JsonObj("type" :> TypeObject),
    JsonObj("address" :> JsonOther("string")),
    JsonOther("string"), JsonOther("negative"), JsonOther("null") }

\* the fields a file gives task_struct: their offset, with the type a
\* string or an object
FieldValues(o) ==
  { ("offset" :> o) @@ ("type" :> JsonOther("string")),
    ("offset" :> o) @@ ("type" :> TypeObject) }
DwarfUserTypes ==
  { <<>> , "task_struct" :> [size |-> 9216, fields |-> None] }
  \cup { "task_struct" :> [size |-> 9216, fields |-> Some("pid" :> p)] : p \in FieldValues(808) }
  \cup { "task_struct" :> [size |-> 9664,
                           fields |-> Some(("pid" :> p) @@ ("comm" :> c))] :
           p \in FieldValues(1112), c \in FieldValues(1320) }

DwarfFiles ==
  { [symbols |-> syms, user_types |-> types] :
      syms \in { "init_task" :> v : v \in SymbolValues(INIT_TASK_SYM) }
               \cup { ("init_task" :> v) @@ ("_text" :> w) :
                        v \in SymbolValues(INIT_TASK_SYM), w \in SymbolValues(TEXT_SYM_A) }
               \cup { <<>> },
      types \in DwarfUserTypes }

InitDwarf ==
  /\ input = RawProbe
  /\ pc = "call"
  /\ translator = MemoryTranslator_new
  /\ stageA = NoStageA
  /\ stageB = NoStageB
  /\ stageC = NoStageC
  /\ context = None
  /\ walk = NoWalk
  /\ outcome = "running"
  /\ call \in { [fn |-> fn, dwarf |-> d, ret |-> None] :
                  fn \in {"get_symbols", "get_struct_offsets"}, d \in DwarfFiles }

\* DwarfSymbols::get_symbols, and get_symbol_address for each name
CallGetSymbols ==
  /\ pc = "call" /\ call.fn = "get_symbols"
  /\ call' = [call EXCEPT !.ret =
                [ all |-> get_symbols(call.dwarf),
                  one |-> [n \in {"init_task", "_text"} |->
                             DwarfSymbols_get_symbol_address(call.dwarf, n)] ]]
  /\ pc' = "exit"
  /\ UNCHANGED <<input, translator, stageA, stageB, stageC, context, walk, outcome>>

\* DwarfSymbols::get_struct_offsets, and get_field_offset for each field
CallGetStructOffsets ==
  /\ pc = "call" /\ call.fn = "get_struct_offsets"
  /\ call' = [call EXCEPT !.ret =
                [ all |-> get_struct_offsets(call.dwarf, "task_struct"),
                  one |-> [f \in {"pid", "comm"} |->
                             get_field_offset(call.dwarf, "task_struct", f)] ]]
  /\ pc' = "exit"
  /\ UNCHANGED <<input, translator, stageA, stageB, stageC, context, walk, outcome>>

NextDwarf == CallGetSymbols \/ CallGetStructOffsets

SpecDwarf == InitDwarf /\ [][NextDwarf]_vars

\* the address a symbol's value gives: the integer itself, or the integer
\* that is the address member of the object; None for any other value
GivenAddress(value) ==
  CASE value.k = "num" -> Some(value.n)
    [] /\ value.k = "obj" /\ "address" \in DOMAIN value.members
       /\ value.members["address"].k = "num" -> Some(value.members["address"].n)
    [] OTHER -> None

\* C26: in both formats the address got for a symbol is the integer given
\* as its value or as the address member of its object value, a symbol
\* whose value has neither shape is absent, and the offset got for a field
\* is its offset member whether its type is a string or an object
C26_BothFormats ==
  /\ (pc = "exit" /\ call.fn = "get_symbols") =>
       \A n \in DOMAIN call.dwarf.symbols :
         /\ call.ret.one[n] = GivenAddress(call.dwarf.symbols[n])
         /\ GivenAddress(call.dwarf.symbols[n]).some
              => (n \in DOMAIN call.ret.all
                  /\ call.ret.all[n] = GivenAddress(call.dwarf.symbols[n]).val)
         /\ ~ GivenAddress(call.dwarf.symbols[n]).some => n \notin DOMAIN call.ret.all
  /\ (pc = "exit" /\ call.fn = "get_struct_offsets" /\ call.ret.all.some) =>
       \A f \in DOMAIN call.dwarf.user_types["task_struct"].fields.val :
         /\ call.ret.all.val[f] = call.dwarf.user_types["task_struct"].fields.val[f]["offset"]
         /\ call.ret.one[f] = Some(call.ret.all.val[f])

\* a new-format file: init_task an object with a type and an address, _text
\* of neither shape; the address is got for the one, the other is absent
C26_Witness ==
  /\ pc = "exit" /\ call.fn = "get_symbols"
  /\ DOMAIN call.dwarf.symbols = {"init_task", "_text"}
  /\ call.dwarf.symbols["init_task"]
       = JsonObj(("type" :> TypeObject) @@ ("address" :> JsonNum(INIT_TASK_SYM)))
  /\ call.dwarf.symbols["_text"] = JsonOther("string")
  /\ DOMAIN call.ret.all = {"init_task"}
  /\ call.ret.all["init_task"] = INIT_TASK_SYM

----------------------------------------------------------------------------
(* Symbol-listing files: load_system_map, load_kallsyms (symbols/mod.rs)    *)

\* char::is_whitespace on the bytes of a line: space and tab
IsSpace(b) == b = 32 \/ b = 9

\* str::split_whitespace: the maximal runs of non-space bytes, in order;
\* cur is the run being read
RECURSIVE SplitFrom(_, _, _)
SplitFrom(line, i, cur) ==
  IF i > Len(line) THEN (IF cur = <<>> THEN <<>> ELSE <<cur>>)
  ELSE IF IsSpace(line[i])
       THEN (IF cur = <<>> THEN <<>> ELSE <<cur>>) \o SplitFrom(line, i + 1, <<>>)
       ELSE SplitFrom(line, i + 1, Append(cur, line[i]))
split_whitespace(line) == SplitFrom(line, 1, <<>>)

\* str::trim_start_matches("0x"): the prefix is removed as often as it is there
RECURSIVE trim_start_matches_0x(_)
trim_start_matches_0x(str) ==
  IF Len(str) >= 2 /\ str[1] = 48 /\ str[2] = 120
  THEN trim_start_matches_0x(SubSeq(str, 3, Len(str)))
  ELSE str

\* char::to_digit(16): -1 for a byte that is no hexadecimal digit
HexDigit(b) ==
  CASE b >= 48 /\ b <= 57 -> b - 48
    [] b >= 97 /\ b <= 102 -> b - 87
    [] b >= 65 /\ b <= 70 -> b - 55
    [] OTHER -> -1

\* acc * 16 + d on the limbs; None when it leaves 64 bits
U64ShiftInDigit(acc, d) ==
  IF acc[1] >= B20 THEN None
  ELSE Some(U64(acc[1] * 16 + acc[2] \div 65536,
                (acc[2] % 65536) * 16 + acc[3] \div 65536,
                (acc[3] % 65536) * 16 + d))

RECURSIVE DigitsFrom(_, _, _)
DigitsFrom(str, i, acc) ==
  IF i > Len(str) THEN Some(acc)
  ELSE IF HexDigit(str[i]) < 0 \/ ~ U64ShiftInDigit(acc, HexDigit(str[i])).some THEN None
       ELSE DigitsFrom(str, i + 1, U64ShiftInDigit(acc, HexDigit(str[i])).val)

\* u64::from_str_radix(str, 16): Err for the empty string, a lone sign, a
\* byte that is no digit and a value over 64 bits; a leading '+' is taken
from_str_radix_16(str) ==
  IF str = <<>> THEN None
  ELSE IF str[1] = 43
       THEN (IF Len(str) = 1 THEN None ELSE DigitsFrom(str, 2, U64Zero))
       ELSE DigitsFrom(str, 1, U64Zero)

\* SymbolResolver::add_symbol: HashMap::insert
add_symbol(symbols, name, address) ==
  [n \in DOMAIN symbols \cup {name} |-> IF n = name THEN address ELSE symbols[n]]

\* the body of the loop of load_system_map (symbols/mod.rs 394-409)
SystemMapLine(symbols, parts) ==
  IF /\ Len(parts) >= 3
     /\ Len(parts[2]) = 1
     /\ from_str_radix_16(trim_start_matches_0x(parts[1])).some
  THEN add_symbol(symbols, parts[3], from_str_radix_16(trim_start_matches_0x(parts[1])).val)
  ELSE symbols

\* the body of the loop of load_kallsyms (symbols/mod.rs 423-451)
KallsymsLine(symbols, parts) ==
  IF /\ Len(parts) >= 3
     /\ from_str_radix_16(trim_start_matches_0x(parts[1])).some
     /\ from_str_radix_16(trim_start_matches_0x(parts[1])).val # U64Zero
     /\ Len(parts[2]) = 1
  THEN add_symbol(symbols, parts[3], from_str_radix_16(trim_start_matches_0x(parts[1])).val)
  ELSE symbols

\* SymbolResolver::load_system_map from line i on
RECURSIVE load_system_map(_, _, _)
load_system_map(symbols, lines, i) ==
  IF i > Len(lines) THEN symbols
  ELSE load_system_map(SystemMapLine(symbols, split_whitespace(lines[i])), lines, i + 1)

\* SymbolResolver::load_kallsyms from line i on
RECURSIVE load_kallsyms(_, _, _)
load_kallsyms(symbols, lines, i) ==
  IF i > Len(lines) THEN symbols
  ELSE load_kallsyms(KallsymsLine(symbols, split_whitespace(lines[i])), lines, i + 1)

\* the tokens of the listings
AddrInitTask == <<102, 102, 102, 102, 102, 102, 102, 102, 56, 49, 54, 48, 48, 48, 48, 48>>
AddrTokens ==
  { AddrInitTask,                            \* ffffffff81600000
    <<48, 120>> \o AddrInitTask,             \* 0xffffffff81600000
    <<48>>,                                  \* 0
    <<48, 48, 48, 48, 48, 48, 48, 48, 48, 48, 48, 48, 48, 48, 48, 48>>,
    <<43, 49, 102>>,                         \* +1f
    <<49, 103>>,                             \* 1g
    <<49>> \o AddrInitTask }                 \* 17 digits
TypeTokens == { <<84>>, <<84, 116>> }        \* T, Tt
NameInitTask == <<105, 110, 105, 116, 95, 116, 97, 115, 107>>
NameText == <<95, 116, 101, 120, 116>>
NameTokens == { NameInitTask, NameText }
ModuleToken == <<91, 101, 120, 116, 52, 93>> \* [ext4]

\* the lines: address, type and name apart by a space or a tab, with or
\* without a module suffix; a line without a type; an empty line
ListingLines ==
  { a \o <<32>> \o t \o <<32>> \o n : a \in AddrTokens, t \in TypeTokens, n \in NameTokens }
  \cup { a \o <<9>> \o <<84>> \o <<32, 32>> \o NameInitTask \o <<9>> \o ModuleToken :
           a \in AddrTokens }
  \cup { a \o <<32>> \o n : a \in AddrTokens, n \in NameTokens }
  \cup { <<>> }

MaxLines == 2
ListingFiles == UNION { [1..k -> ListingLines] : k \in 1..MaxLines }

InitListing ==
  /\ input = RawProbe
  /\ pc = "call"
  /\ translator = MemoryTranslator_new
  /\ stageA = NoStageA
  /\ stageB = NoStageB
  /\ stageC = NoStageC
  /\ context = None
  /\ walk = NoWalk
  /\ outcome = "running"
  /\ call \in { [fn |-> fn, lines |-> f, ret |-> None] :
                  fn \in {"load_system_map", "load_kallsyms"}, f \in ListingFiles }

\* main's load of a System.map listing (main.rs 129, 141)
CallLoadSystemMap ==
  /\ pc = "call" /\ call.fn = "load_system_map"
  /\ call' = [call EXCEPT !.ret = Some(load_system_map(<<>>, call.lines, 1))]
  /\ pc' = "exit"
  /\ UNCHANGED <<input, translator, stageA, stageB, stageC, context, walk, outcome>>

\* main's load of a kallsyms listing (main.rs 136)
CallLoadKallsyms ==
  /\ pc = "call" /\ call.fn = "load_kallsyms"
  /\ call' = [call EXCEPT !.ret = Some(load_kallsyms(<<>>, call.lines, 1))]
  /\ pc' = "exit"
  /\ UNCHANGED <<input, translator, stageA, stageB, stageC, context, walk, outcome>>

NextListing == CallLoadSystemMap \/ CallLoadKallsyms

SpecListing == InitListing /\ [][NextListing]_vars

\* <hex-address>: hexadecimal digits, at most sixteen, after an optional 0x
IsHexAddress(tok) ==
  /\ trim_start_matches_0x(tok) # <<>>
  /\ Len(trim_start_matches_0x(tok)) <= 16
  /\ \A i \in 1..Len(trim_start_matches_0x(tok)) : HexDigit(trim_start_matches_0x(tok)[i]) >= 0

\* <hex-address> <one-letter-type> <name>, a module suffix allowed after it
WellFormed(line) ==
  /\ Len(split_whitespace(line)) >= 3
  /\ IsHexAddress(split_whitespace(line)[1])
  /\ Len(split_whitespace(line)[2]) = 1

Loaded == pc = "exit" /\ call.fn \in {"load_system_map", "load_kallsyms"}

NoZeroAddress == Loaded => \A n \in DOMAIN call.ret.val : call.ret.val[n] # U64Zero

MalformedAddsNothing ==
  (Loaded /\ \A i \in 1..Len(call.lines) : ~ WellFormed(call.lines[i]))
     => call.ret.val = <<>>

\* C27: after either loader the catalogue has no symbol at address zero,
\* and lines not of the form <hex-address> <one-letter-type> <name> add no
\* symbol
C27_NoZeroNoMalformed == NoZeroAddress /\ MalformedAddsNothing

----------------------------------------------------------------------------
(* Stage C's base and the translator given to the walker                    *)

\* the base Stage C selected by candidate validation
SelectedBase == stageC.valid[1].page_offset

\* the byte offset at which the selected base was validated:
\* region.file_offset + ((tasks.next - B) - region.start)
ValidatedOffset ==
  phys_to_file_offset(input.regions, U64WrappingSub(stageC.tasks_next.val, SelectedBase))

ByCandidate == context.some /\ stageC.how = "candidate"

\* C28: when Stage C selects a base by candidate validation, the translator
\* given to the walker translates init_task's tasks.next to the byte offset
\* at which that base was validated
C28_TranslatorAgreesWithBase ==
  ByCandidate =>
    /\ virtual_to_file_offset(context.val.translator, input.regions, stageC.tasks_next.val).some
    /\ virtual_to_file_offset(context.val.translator, input.regions, stageC.tasks_next.val).val
         = ValidatedOffset.val

----------------------------------------------------------------------------
(* The offsets each consumer resolves                                      *)

\* the offsets detect_kaslr_offset validates the anchor with (symbols/mod.rs 207-213)
AnchorOffsets(resolver) ==
  [ pid |-> unwrap_or(get_struct_field_offset_fallback(resolver, "task_struct", "pid"), \hAD0),
    tasks |-> unwrap_or(get_struct_field_offset_fallback(resolver, "task_struct", "tasks"), \hA00),
    comm |-> unwrap_or(get_struct_field_offset_fallback(resolver, "task_struct", "comm"), \hCF0) ]

\* the offsets the walker extracts records and follows the list with
WalkerOffsets(mapped, resolver) ==
  [ pid |-> ExtractorOffsets(resolver, detect_kernel_version(mapped)).pid,
    tasks |-> WalkTasksOffset(mapped, resolver),
    comm |-> ExtractorOffsets(resolver, detect_kernel_version(mapped)).comm ]

\* C29: within a run the anchor's validation, Stages B and C and the walker
\* resolve each of pid, comm and tasks to the same offset, for every
\* catalogue and every detected kernel version
C29_SameOffsets ==
  walk.started =>
    \A f \in {"pid", "comm", "tasks"} :
      /\ AnchorOffsets(input)[f] = StageCOffsets(input)[f]
      /\ StageCOffsets(input)[f] = WalkerOffsets(input, input)[f]

----------------------------------------------------------------------------
(* The process tree: ProcessTree (plugins/pstree.rs)                        *)

\* process_map after the inserts: the last record of each pid
ProcessMapOf(processes) ==
  [ pid \in {processes[i].pid : i \in 1..Len(processes)} |->
      processes[MaxOf({i \in 1..Len(processes) : processes[i].pid = pid})] ]

\* ProcessTree::build_from_processes; order is the order in which
\* process_map.values() yields the records, as the pids
build_from_processes(processes, order) ==
  [ process_map |-> ProcessMapOf(processes),
    parent_map |->
      [ parent \in { ProcessMapOf(processes)[q].ppid : q \in DOMAIN ProcessMapOf(processes) }
                     \cap DOMAIN ProcessMapOf(processes) |->
          SelectSeq(order, LAMBDA q : ProcessMapOf(processes)[q].ppid = parent) ],
    roots |-> SelectSeq(order, LAMBDA q :
                ProcessMapOf(processes)[q].ppid \notin DOMAIN ProcessMapOf(processes)) ]

\* the records of a walk: pid 0 is its own parent, as init_task is
TreePids == {0, 1, 2}
TreeParents == TreePids \cup {9}
TreeRecord(pid, ppid) ==
  [pid |-> pid, ppid |-> ppid, comm |-> IF pid = 0 THEN SwapperSlash0 ELSE Bash]
Orders(S) == { o \in UNION { [1..k -> S] : k \in {Cardinality(S)} } :
                 \A i, j \in DOMAIN o : i # j => o[i] # o[j] }
TreeLists ==
  { [i \in DOMAIN o |-> TreeRecord(o[i], pp[o[i]])] :
      o \in UNION { Orders(S) : S \in SUBSET TreePids \ {{}} },
      pp \in [TreePids -> TreeParents] }

InitTree ==
  /\ input = RawProbe
  /\ pc = "call"
  /\ translator = MemoryTranslator_new
  /\ stageA = NoStageA
  /\ stageB = NoStageB
  /\ stageC = NoStageC
  /\ context = None
  /\ walk = NoWalk
  /\ outcome = "running"
  /\ call \in UNION { { [ fn |-> "pstree", processes |-> l, order |-> o, tree |-> None,
                           stack |-> <<>>, result |-> <<>> ] :
                           o \in Orders(DOMAIN ProcessMapOf(l)) } : l \in TreeLists }

\* the order of process_map.values(): any order of the pids of the map
ValuesOrder(c) == c.order

\* PsTreePlugin::run: build_from_processes, and to_string up to its loop
CallBuildFromProcesses ==
  /\ pc = "call" /\ call.fn = "pstree"
  /\ call' = [call EXCEPT
                !.tree = Some(build_from_processes(call.processes, ValuesOrder(call))),
                !.stack = [k \in 1..Len(build_from_processes(call.processes,
                                                             ValuesOrder(call)).roots) |->
                             [ pid |-> build_from_processes(call.processes,
                                                            ValuesOrder(call)).roots[k],
                               depth |-> 0 ]]]
  /\ pc' = "to_string"
  /\ UNCHANGED <<input, translator, stageA, stageB, stageC, context, walk, outcome>>

\* the calls add_process_to_string makes for the children of pid, in order
ChildCalls(tree, pid, depth) ==
  IF pid \in DOMAIN tree.parent_map
  THEN [k \in 1..Len(tree.parent_map[pid]) |->
          [pid |-> tree.parent_map[pid][k], depth |-> depth + 1]]
  ELSE <<>>

\* ProcessTree::add_process_to_string for the next pending call: the line
\* of the process, then its children before the calls still pending
AddProcessToString ==
  /\ pc = "to_string" /\ call.stack # <<>>
  /\ call' = [call EXCEPT
                !.result = IF Head(call.stack).pid \in DOMAIN call.tree.val.process_map
                           THEN Append(call.result,
                                  [ depth |-> Head(call.stack).depth,
                                    comm |-> call.tree.val.process_map[Head(call.stack).pid].comm,
                                    pid |-> Head(call.stack).pid,
                                    ppid |-> call.tree.val.process_map[Head(call.stack).pid].ppid ])
                           ELSE call.result,
                !.stack = IF Head(call.stack).pid \in DOMAIN call.tree.val.process_map
                          THEN ChildCalls(call.tree.val, Head(call.stack).pid,
                                          Head(call.stack).depth) \o Tail(call.stack)
                          ELSE Tail(call.stack)]
  /\ UNCHANGED <<pc, input, translator, stageA, stageB, stageC, context, walk, outcome>>

\* ProcessTree::to_string returns
ToStringReturn ==
  /\ pc = "to_string" /\ call.stack = <<>>
  /\ pc' = "exit"
  /\ UNCHANGED <<call, input, translator, stageA, stageB, stageC, context, walk, outcome>>

NextTree == CallBuildFromProcesses \/ AddProcessToString \/ ToStringReturn

SpecTree == InitTree /\ [][NextTree]_vars
FairSpecTree == SpecTree /\ WF_vars(NextTree)

TreePrinted == pc = "exit" /\ call.fn = "pstree"

\* the lines of the text that are the line of the process pid
LinesOf(pid) == {k \in 1..Len(call.result) : call.result[k].pid = pid}

\* C30: for records with pairwise distinct pids, a pid-0 record with ppid 0
\* among them, the text of the tree has each process exactly once
C30_EachProcessOnce ==
  TreePrinted =>
    \A i \in 1..Len(call.processes) : Cardinality(LinesOf(call.processes[i].pid)) = 1

\* to_string returns
C30_Terminates == <>(pc = "exit")

====
